---- MODULE Spec2Model ----
(***************************************************************************)
(* Trading Hydra: the safety-and-allocation control loop.                  *)
(*                                                                         *)
(* The state is the durable state store (core/state.py), the wall clock,   *)
(* the configuration the process was started with, and the position and    *)
(* local variables of TradingOrchestrator.run_loop.  Money is counted in   *)
(* whole dollars, time in clock ticks; the clock advances only between     *)
(* the steps of an iteration.  Floating point is modelled by exact         *)
(* arithmetic: comparisons are cross-multiplied instead of divided.        *)
(***************************************************************************)
EXTENDS Integers, Sequences, FiniteSets, TLC

(***************************************************************************)
(* Bounds of the model.                                                    *)
(***************************************************************************)
\* the clock runs from 0 to MaxTime
MaxTime == 2
\* record_api_failure is not taken past this count
MaxFailureCount == 3
\* the calendar days run from 0 to MaxDay
MaxDay == 1

(***************************************************************************)
(* Configured values (settings.yaml, bots.yaml) and program constants.     *)
(***************************************************************************)
\* settings: health.max_api_failures_in_window
max_failures == 2
\* settings: health.max_price_staleness_seconds, in ticks
stale_threshold == 1
\* bots: exitbot.cooloff_minutes, in ticks
cooloff == 1
\* settings: risk.global_max_daily_loss_pct
max_loss_pct == 2
\* orchestrator: account fetch attempts
max_retries == 3
\* orchestrator: a stored baseline below this is reset
BaselineFloor == 1000
\* alpaca client: _request(retries=2)
retries == 2

(***************************************************************************)
(* Strings.  TLC's Len, SubSeq and \o work on strings.                     *)
(***************************************************************************)
Upper == "ABCDEFGHIJKLMNOPQRSTUVWXYZ"
LowerLetters == "abcdefghijklmnopqrstuvwxyz"

\* str.lower() on one character
LowerChar(c) ==
    IF \E i \in 1..26 : SubSeq(Upper, i, i) = c
    THEN LET i == CHOOSE j \in 1..26 : SubSeq(Upper, j, j) = c
         IN  SubSeq(LowerLetters, i, i)
    ELSE c

\* str.lower()
RECURSIVE lower(_)
lower(s) ==
    IF Len(s) = 0 THEN ""
    ELSE LowerChar(SubSeq(s, 1, 1)) \o lower(SubSeq(s, 2, Len(s)))

\* needle in hay
StartsWith(s, prefix) ==
    Len(s) >= Len(prefix) /\ SubSeq(s, 1, Len(prefix)) = prefix

Contains(hay, needle) ==
    \E i \in 1..(Len(hay) - Len(needle) + 1) :
        SubSeq(hay, i, i + Len(needle) - 1) = needle

\* "; ".join(seq)
RECURSIVE Join(_, _)
Join(seq, sep) ==
    IF Len(seq) = 0 THEN ""
    ELSE IF Len(seq) = 1 THEN seq[1]
    ELSE seq[1] \o sep \o Join(Tail(seq), sep)

\* f"{x:.2f}" of a whole number
Fmt2(n) == ToString(n) \o ".00"

(***************************************************************************)
(* Timestamps.  datetime.isoformat() + "Z" on writing;                     *)
(* fromisoformat(s.replace("Z", "+00:00")) on reading.                     *)
(***************************************************************************)
Digits == "0123456789"

IsDigit(c) == \E i \in 1..10 : SubSeq(Digits, i, i) = c

DigitVal(c) == (CHOOSE i \in 1..10 : SubSeq(Digits, i, i) = c) - 1

\* datetime.isoformat() + "Z"
isoformat(t) == ToString(t) \o "Z"

\* str.replace("Z", "+00:00")
RECURSIVE replaceZ(_)
replaceZ(s) ==
    IF Len(s) = 0 THEN ""
    ELSE (IF SubSeq(s, 1, 1) = "Z" THEN "+00:00" ELSE SubSeq(s, 1, 1))
         \o replaceZ(SubSeq(s, 2, Len(s)))

RECURSIVE ParseNat(_, _)
ParseNat(s, acc) ==
    IF Len(s) = 0 THEN acc
    ELSE ParseNat(SubSeq(s, 2, Len(s)), acc * 10 + DigitVal(SubSeq(s, 1, 1)))

\* datetime.fromisoformat: the time of a well-formed string, -1 for ValueError
fromisoformat(s) ==
    LET n == Len(s)
        body == IF n > 6 /\ SubSeq(s, n - 5, n) = "+00:00"
                THEN SubSeq(s, 1, n - 6) ELSE s
    IN  IF Len(body) > 0 /\ \A i \in 1..Len(body) : IsDigit(SubSeq(body, i, i))
        THEN ParseNat(body, 0)
        ELSE -1

(***************************************************************************)
(* core/state.py: the store is a function from its present keys to values. *)
(* The four operators below are the rows of the table: the SELECT, the     *)
(* INSERT OR REPLACE and the DELETE.  The facts the loop keeps are         *)
(* booleans, numbers and strings, which json.dumps and json.loads return   *)
(* as they were; the conversion of other values is set_state_call below.   *)
(***************************************************************************)
has_key(s, key) == key \in DOMAIN s

get_state(s, key, default) == IF key \in DOMAIN s THEN s[key] ELSE default

set_state(s, key, value) == (key :> value) @@ s

\* a delete that leaves the row where it was
delete_state_keeping(s, key) == s

delete_state(s, key) == [k \in (DOMAIN s) \ {key} |-> s[k]]

EmptyStore == [k \in {} |-> 0]

\* A Python value: its type and the text str() gives for it.  A dict here
\* is one with a tuple among its keys.
JsonNative == {"int", "str", "NoneType"}

Quoted(text) == "\"" \o text \o "\""

\* json.dumps(value, default=str): the JSON text, or the TypeError raised
json_dumps(value) ==
    IF value.py = "int" THEN [ok |-> TRUE, text |-> value.text, error |-> ""]
    ELSE IF value.py = "NoneType" THEN [ok |-> TRUE, text |-> "null", error |-> ""]
    ELSE IF value.py = "dict"
    THEN [ok |-> FALSE, text |-> "",
          error |-> "keys must be str, int, float, bool or None, not tuple"]
    ELSE [ok |-> TRUE, text |-> Quoted(value.text), error |-> ""]

\* json.loads of a text json_dumps wrote
json_loads(text) ==
    IF text = "null" THEN [py |-> "NoneType", text |-> "None"]
    ELSE IF StartsWith(text, "\"")
    THEN [py |-> "str", text |-> SubSeq(text, 2, Len(text) - 1)]
    ELSE [py |-> "int", text |-> text]

\* key.strip() of a key made of letters and blanks
IsBlank(key) == \A i \in 1..Len(key) : SubSeq(key, i, i) = " "

\* get_state(key, default) on a table of JSON texts
get_state_call(s, key, default) ==
    IF has_key(s, key) THEN json_loads(s[key]) ELSE default

\* set_state(key, value) on a table of JSON texts: the table it leaves and
\* the ValueError it raises, if any
set_state_call(s, key, value) ==
    IF IsBlank(key)
    THEN [store |-> s, raised |-> TRUE,
          error |-> "State key must be a non-empty string"]
    ELSE
    LET d == json_dumps(value)
    IN  IF d.ok
        THEN [store |-> set_state(s, key, d.text), raised |-> FALSE, error |-> ""]
        ELSE [store |-> s, raised |-> TRUE,
              error |-> "Cannot serialize value for key '" \o key \o "': "
                            \o d.error]

(***************************************************************************)
(* core/halt.py: HaltManager.  Each operator takes the store and the       *)
(* current time and yields the store it leaves behind.                     *)
(***************************************************************************)
\* a halt set over a standing one that keeps the time the first was set
set_halt_keeping(s, reason, cooloff_minutes, t) ==
    LET s1 == set_state(s, "halt.active", TRUE)
        s2 == set_state(s1, "halt.reason", reason)
        s3 == IF has_key(s, "halt.halted_at") THEN s2
              ELSE set_state(s2, "halt.halted_at", isoformat(t))
    IN  set_state(s3, "halt.expires_at", isoformat(t + cooloff_minutes))

set_halt(s, reason, cooloff_minutes, t) ==
    LET s1 == set_state(s, "halt.active", TRUE)
        s2 == set_state(s1, "halt.reason", reason)
        s3 == set_state(s2, "halt.halted_at", isoformat(t))
    IN  set_state(s3, "halt.expires_at", isoformat(t + cooloff_minutes))

\* a clearing that deletes the flag alone
clear_halt_flag_only(s) == delete_state(s, "halt.active")

clear_halt(s) ==
    delete_state(delete_state(delete_state(delete_state(s,
        "halt.active"), "halt.reason"), "halt.halted_at"), "halt.expires_at")

\* the comparison of clear_if_expired
Expired(t, expires) == t > expires

\* the store after clear_if_expired()
clear_if_expired(s, t) ==
    IF ~has_key(s, "halt.expires_at") THEN s
    ELSE LET expires == fromisoformat(replaceZ(s["halt.expires_at"]))
         IN  IF expires >= 0 /\ Expired(t, expires) THEN clear_halt(s) ELSE s

\* is_halted(): its value; the store it leaves is clear_if_expired(s, t)
is_halted(s, t) == get_state(clear_if_expired(s, t), "halt.active", FALSE)

\* a status that has lost its reason
get_status_blank(s) ==
    [active |-> get_state(s, "halt.active", FALSE), reason |-> "",
     halted_at |-> get_state(s, "halt.halted_at", "None"),
     expires_at |-> get_state(s, "halt.expires_at", "None")]

get_status(s) ==
    [active     |-> get_state(s, "halt.active", FALSE),
     reason     |-> get_state(s, "halt.reason", ""),
     halted_at  |-> get_state(s, "halt.halted_at", "None"),
     expires_at |-> get_state(s, "halt.expires_at", "None")]

(***************************************************************************)
(* core/health.py: HealthMonitor.                                          *)
(***************************************************************************)
\* (health.last_api_failure, a time stamp nothing reads, is left out)
record_api_failure(s, t) ==
    LET count == get_state(s, "health.api_failure_count", 0)
    IN  set_state(s, "health.api_failure_count", count + 1)

\* a tick that stamps the time and leaves the counter
record_price_tick_stamp_only(s, t) ==
    set_state(s, "health.last_price_tick", isoformat(t))

record_price_tick(s, t) ==
    set_state(set_state(s, "health.last_price_tick", isoformat(t)),
              "health.api_failure_count", 0)

\* staleness at the threshold taken for stale
StaleFrom(stale_seconds, max_staleness) == stale_seconds >= max_staleness

\* stale_seconds > stale_threshold
Stale(stale_seconds, max_staleness) == stale_seconds > max_staleness

\* get_snapshot under the thresholds the settings give
get_snapshot_under(s, t, max_api_failures, max_staleness) ==
    LET api_failures == get_state(s, "health.api_failure_count", 0)
        has_tick == has_key(s, "health.last_price_tick")
        last_tick == IF has_tick
                     THEN fromisoformat(replaceZ(s["health.last_price_tick"]))
                     ELSE -1
        stale_seconds == IF has_tick /\ last_tick >= 0 THEN t - last_tick ELSE 0
    IN  IF api_failures >= max_api_failures
        THEN [ok |-> FALSE,
              reason |-> "API failures (" \o ToString(api_failures)
                         \o ") >= max (" \o ToString(max_api_failures) \o ")",
              api_failures |-> api_failures, stale_seconds |-> stale_seconds]
        ELSE IF has_tick /\ Stale(stale_seconds, max_staleness)
        THEN [ok |-> FALSE,
              reason |-> "Data stale (" \o ToString(stale_seconds) \o "s > "
                         \o ToString(max_staleness) \o "s)",
              api_failures |-> api_failures, stale_seconds |-> stale_seconds]
        ELSE [ok |-> TRUE, reason |-> "OK",
              api_failures |-> api_failures, stale_seconds |-> stale_seconds]

get_snapshot(s, t) == get_snapshot_under(s, t, max_failures, stale_threshold)

(***************************************************************************)
(* core/risk.py                                                            *)
(***************************************************************************)
\* dollars_from_pct(base, pct) = base * (pct / 100), kept as hundredths
dollars_from_pct_x100(base_amount, pct) == base_amount * pct

\* the fraction returned where the percentage is due
pct_from_dollars_fraction(base_amount, dollars_x100) ==
    IF base_amount = 0 THEN 0 ELSE dollars_x100 \div (base_amount * 100)

\* pct_from_dollars, of an amount given in hundredths: (dollars / base) * 100
pct_from_dollars_x100(base_amount, dollars_x100) ==
    IF base_amount = 0 THEN 0 ELSE dollars_x100 \div base_amount

\* a budget of nothing taken for a budget
valid_budget_nonneg(budget) == budget >= 0

valid_budget(budget) == budget > 0

(***************************************************************************)
(* services/alpaca_client.py: AlpacaClient.  A script is what the network  *)
(* answers to the successive HTTP attempts of one _request call: "ok",     *)
(* "http" (a status >= 400) or "net" (a requests.RequestException).        *)
(***************************************************************************)
Scripts ==
    { sc \in UNION { [1..n -> {"ok", "http", "net"}] : n \in 1..(retries + 1) } :
        /\ \A i \in 1..(Len(sc) - 1) : sc[i] = "net"
        /\ (sc[Len(sc)] = "net" => Len(sc) = retries + 1) }

\* the body of an error answer (resp.text)
HttpErrorText == "503: service unavailable"

\* the text of a requests.RequestException
NetErrorText == "connection timed out"

\* _request from HTTP attempt number `attempt` on
RECURSIVE request_from(_, _, _, _)
request_from(s, t, sc, attempt) ==
    LET o == sc[attempt + 1]
    IN  IF o = "ok"
        THEN [store |-> record_price_tick(s, t), ok |-> TRUE, error |-> ""]
        ELSE IF o = "http"
        THEN [store |-> record_api_failure(s, t), ok |-> FALSE,
              error |-> "Alpaca API error " \o HttpErrorText]
        ELSE IF attempt < retries
        THEN request_from(record_api_failure(s, t), t, sc, attempt + 1)
        ELSE [store |-> record_api_failure(s, t), ok |-> FALSE,
              error |-> "Alpaca request failed: " \o NetErrorText]

\* AlpacaClient._request with credentials present
request(s, t, sc) == request_from(s, t, sc, 0)

\* the scripts of the two requests of flatten: the second is made only when
\* the first succeeds
FlattenScripts(scripts) ==
    { fs \in scripts \X scripts :
        fs[1][Len(fs[1])] # "ok" => fs[2] = <<"ok">> }

\* the failures one _request call records under script sc
ScriptFailures(sc) == Cardinality({i \in 1..Len(sc) : sc[i] # "ok"})

\* f"{x}" of a float holding a whole number
FmtFloat(n) == ToString(n) \o ".0"

\* AlpacaClient.get_account: `answer` is the equity field of the response,
\* a negative one standing for every answer the validation rejects
get_account(s, t, sc, answer) ==
    LET r == request(s, t, sc)
    IN  IF ~r.ok
        THEN [store |-> r.store, ok |-> FALSE, equity |-> 0, error |-> r.error]
        ELSE IF answer < 0
        THEN [store |-> r.store, ok |-> FALSE, equity |-> 0,
              error |-> "Invalid negative equity: " \o FmtFloat(answer)]
        ELSE [store |-> r.store, ok |-> TRUE, equity |-> answer, error |-> ""]

\* AlpacaClient.flatten: cancel_all_orders, then close_all_positions
flatten(s, t, credentials, sc1, sc2) ==
    IF ~credentials
    THEN [store |-> s, success |-> FALSE, error |-> "No credentials"]
    ELSE LET r1 == request(s, t, sc1)
         IN  IF ~r1.ok
             THEN [store |-> r1.store, success |-> FALSE, error |-> r1.error]
             ELSE LET r2 == request(r1.store, t, sc2)
                  IN  IF ~r2.ok
                      THEN [store |-> r2.store, success |-> FALSE,
                            error |-> r2.error]
                      ELSE [store |-> r2.store, success |-> TRUE, error |-> ""]

(***************************************************************************)
(* bots.yaml as the process loaded it.  Budgets are kept as whole numbers  *)
(* of 1/BudgetScale dollars, so that every percentage and every even split *)
(* among the momentum workers is exact.                                    *)
(***************************************************************************)
momentum_bots ==
    << [bot_id |-> "mom_AAPL", enabled |-> TRUE],
       [bot_id |-> "mom_TSLA", enabled |-> FALSE] >>

optionsbot == [bot_id |-> "opt_core", enabled |-> FALSE]

cryptobot == [bot_id |-> "crypto_core", enabled |-> TRUE]

\* portfoliobot.buckets and portfoliobot.guardrails, in percent of daily risk
buckets == [momentum |-> 50, options |-> 50, crypto |-> 25]

guardrails == [per_bot_min |-> 10, per_bot_max |-> 50]

BudgetScale == 100 * 100 * 2

Max(a, b) == IF a >= b THEN a ELSE b

Min(a, b) == IF a <= b THEN a ELSE b

\* the text of the exception load_bots_config raises
ConfigErrorText == "Config file not found: bots.yaml"

(***************************************************************************)
(* services/portfolio.py: PortfolioBot.run                                 *)
(***************************************************************************)
\* the six facts written for one worker
write_budget(s, bot_id, amount, trades, positions, enabled) ==
    LET s1 == set_state(s, "budgets." \o bot_id \o ".max_daily_loss", amount)
        s2 == set_state(s1, "budgets." \o bot_id \o ".max_open_risk", amount * 2)
        s3 == set_state(s2, "budgets." \o bot_id \o ".max_trades_per_day", trades)
        s4 == set_state(s3, "budgets." \o bot_id \o ".max_concurrent_positions",
                        positions)
        s5 == set_state(s4, "bots." \o bot_id \o ".allowed", TRUE)
    IN  set_state(s5, "bots." \o bot_id \o ".enabled", enabled)

\* the loop over the configured momentum workers, from index i on
RECURSIVE write_momentum(_, _, _, _)
write_momentum(s, bots, i, mom_each) ==
    IF i > Len(bots) THEN s
    ELSE write_momentum(
             write_budget(s, bots[i].bot_id, mom_each, 5, 2, bots[i].enabled),
             bots, i + 1, mom_each)

enabled_momentum(bots) == SelectSeq(bots, LAMBDA b : b.enabled)

EnabledMomentum == enabled_momentum(momentum_bots)

RECURSIVE BotIds(_)
BotIds(bots) == IF Len(bots) = 0 THEN <<>>
                ELSE <<Head(bots).bot_id>> \o BotIds(Tail(bots))

\* bots.yaml as load_bots_config returns it: ok tells that it could be read
LoadedConfig(portfoliobot_enabled) ==
    [ok |-> TRUE, enabled |-> portfoliobot_enabled,
     momentum_bots |-> momentum_bots, optionsbot |-> optionsbot,
     cryptobot |-> cryptobot, buckets |-> buckets, guardrails |-> guardrails]

\* an exception whose text is lost on the way to the result
load_error_blank(e) == ""

\* str(e) of the exception the loading raised
load_error_text(e) == e

\* a refusal that also forgets what the store held
allocation_refused_wiping(s, error) ==
    [store |-> EmptyStore, budgets_set |-> FALSE, daily_risk |-> 0,
     enabled_bots |-> <<>>, error |-> error]

\* the two early returns of run(): nothing is written
allocation_refused(s, error) ==
    [store |-> s, budgets_set |-> FALSE, daily_risk |-> 0,
     enabled_bots |-> <<>>, error |-> error]

\* the equity of the call taken as the base whatever is stored
risk_base_current(s, equity) == equity

\* get_state("day_start_equity", equity) or equity
risk_base(s, equity) ==
    LET stored == get_state(s, "day_start_equity", equity)
    IN  IF stored = 0 THEN equity ELSE stored

\* the even share handed out as it is
share_unclamped(per_min, per_max, share) == share

\* max(per_min, min(per_max, mom_bucket / num_mom))
clamp_share(per_min, per_max, share) == Max(per_min, Min(per_max, share))

\* PortfolioBot.run under the configuration c
PortfolioBot_run(s, c, equity) ==
    IF ~c.ok THEN allocation_refused(s, load_error_text(ConfigErrorText))
    ELSE IF ~c.enabled THEN allocation_refused(s, "")
    ELSE
    LET day_start_equity == risk_base(s, equity)
        \* daily_risk in 1/BudgetScale dollars
        daily_risk == dollars_from_pct_x100(day_start_equity, max_loss_pct)
                      * (BudgetScale \div 100)
        mom_bucket == (daily_risk * c.buckets.momentum) \div 100
        opt_bucket == (daily_risk * c.buckets.options) \div 100
        cry_bucket == (daily_risk * c.buckets.crypto) \div 100
        per_min == (daily_risk * c.guardrails.per_bot_min) \div 100
        per_max == (daily_risk * c.guardrails.per_bot_max) \div 100
        num_mom == Max(1, Len(enabled_momentum(c.momentum_bots)))
        mom_each == clamp_share(per_min, per_max, mom_bucket \div num_mom)
        s1 == write_momentum(s, c.momentum_bots, 1, mom_each)
        s2 == IF c.optionsbot.enabled
              THEN write_budget(s1, c.optionsbot.bot_id, opt_bucket, 3, 2, TRUE)
              ELSE s1
        s3 == IF c.cryptobot.enabled
              THEN write_budget(s2, c.cryptobot.bot_id, cry_bucket, 5, 3, TRUE)
              ELSE s2
    IN  [store |-> s3, budgets_set |-> TRUE, daily_risk |-> daily_risk,
         enabled_bots |-> BotIds(enabled_momentum(c.momentum_bots))
                          \o (IF c.optionsbot.enabled
                              THEN <<c.optionsbot.bot_id>> ELSE <<>>)
                          \o (IF c.cryptobot.enabled
                              THEN <<c.cryptobot.bot_id>> ELSE <<>>),
         error |-> ""]

\* run() in the process of the loop, whose bots.yaml is the one above
portfoliobot_run(s, portfoliobot_enabled, equity) ==
    PortfolioBot_run(s, LoadedConfig(portfoliobot_enabled), equity)

(***************************************************************************)
(* services/execution.py: ExecutionService.run.  outcomes[i] tells whether *)
(* the trading logic of the i-th enabled worker returns ("ok") or raises.  *)
(***************************************************************************)
BotErrorText == "order rejected"

\* an exception that ends the loop over the workers
after_error_stop(bot_id, rest) ==
    [bots_run |-> <<>>, errors |-> <<bot_id \o ": " \o BotErrorText>>]

\* except Exception: the error is recorded and the loop goes on to the rest
after_error(bot_id, rest) ==
    [bots_run |-> rest.bots_run,
     errors |-> <<bot_id \o ": " \o BotErrorText>> \o rest.errors]

RECURSIVE execution_loop(_, _, _, _)
execution_loop(s, enabled, outcomes, i) ==
    IF i > Len(enabled) THEN [bots_run |-> <<>>, errors |-> <<>>]
    ELSE
    LET bot_id == enabled[i]
        rest == execution_loop(s, enabled, outcomes, i + 1)
        is_enabled == get_state(s, "bots." \o bot_id \o ".enabled", FALSE)
        is_allowed == get_state(s, "bots." \o bot_id \o ".allowed", FALSE)
        max_daily_loss ==
            get_state(s, "budgets." \o bot_id \o ".max_daily_loss", 0)
    IN  IF ~is_enabled \/ ~is_allowed THEN rest
        ELSE IF ~valid_budget(max_daily_loss) THEN rest
        ELSE IF outcomes[i] = "raise"
        THEN after_error(bot_id, rest)
        ELSE [bots_run |-> <<bot_id>> \o rest.bots_run, errors |-> rest.errors]

\* a run that ends by lifting whatever halt stands
execution_run_clearing(s, t, enabled, outcomes) ==
    LET r == execution_loop(s, enabled, outcomes, 1)
    IN  [store |-> clear_halt(record_price_tick(s, t)),
         bots_run |-> r.bots_run, errors |-> r.errors]

execution_run(s, t, enabled, outcomes) ==
    LET r == execution_loop(s, enabled, outcomes, 1)
    IN  [store |-> record_price_tick(s, t),
         bots_run |-> r.bots_run, errors |-> r.errors]

(***************************************************************************)
(* services/exitbot.py: ExitBot.run                                        *)
(***************************************************************************)
\* f"{x:.2f}" of an amount given in hundredths
FmtCents(c) ==
    ToString(c \div 100) \o "." \o ToString((c % 100) \div 10)
        \o ToString(c % 10)

ExitBotResult(sc, ih, reason, eq, pnl) ==
    [should_continue |-> sc, is_halted |-> ih, halt_reason |-> reason,
     equity |-> eq, pnl |-> pnl]

\* the comparison with the boundary left out
LossLimitExceeded(pnl, max_loss_x100) == pnl * 100 < -max_loss_x100

\* pnl <= -max_loss, with max_loss given in hundredths
LossLimitReached(pnl, max_loss_x100) == pnl * 100 <= -max_loss_x100

\* the reason returned as it was stored, whatever the liquidation did
reason_as_stored(reason, f) == reason

\* a trip whose liquidation has failed says so in the reason it returns
with_flatten_error(reason, f) ==
    IF f.success THEN reason
    ELSE reason \o " + FLATTEN_FAILED: " \o f.error

\* what run() does once a kill condition has matched: set_halt, then flatten
exitbot_trip(s, t, credentials, reason, no_credentials_suffix, eq, pnl, sc1, sc2) ==
    LET s1 == set_halt(s, reason, cooloff, t)
        f == flatten(s1, t, credentials, sc1, sc2)
    IN  IF credentials
        THEN [store |-> f.store,
              result |-> ExitBotResult(FALSE, TRUE,
                  with_flatten_error(reason, f), eq, pnl),
              set_halts |-> 1, flattens |-> 1,
              flatten_error |-> IF f.success THEN "" ELSE f.error]
        ELSE [store |-> s1,
              result |-> ExitBotResult(FALSE, TRUE,
                  reason \o no_credentials_suffix, eq, pnl),
              set_halts |-> 1, flattens |-> 0, flatten_error |-> ""]

\* the conditions tried with the daily loss ahead of the health
first_match_loss_first(disabled, halted, health_trips, loss_trips) ==
    IF disabled THEN "disabled"
    ELSE IF halted THEN "halted"
    ELSE IF loss_trips THEN "loss"
    ELSE IF health_trips THEN "health"
    ELSE "none"

\* the order in which run() tries its conditions: the first that holds wins
first_match(disabled, halted, health_trips, loss_trips) ==
    IF disabled THEN "disabled"
    ELSE IF halted THEN "halted"
    ELSE IF health_trips THEN "health"
    ELSE IF loss_trips THEN "loss"
    ELSE "none"

exitbot_run(s, t, cfg, eq, day_start, sc1, sc2) ==
    IF ~cfg.bots_config_ok
    THEN [store |-> s,
          result |-> ExitBotResult(FALSE, TRUE,
              "Config load failed: " \o ConfigErrorText, eq, 0),
          set_halts |-> 0, flattens |-> 0, flatten_error |-> ""]
    ELSE
    LET s0 == clear_if_expired(s, t)
        health == get_snapshot(s0, t)
        pnl == eq - day_start
        max_loss_x100 == dollars_from_pct_x100(day_start, max_loss_pct)
        matched == first_match(~cfg.exitbot_enabled, is_halted(s, t),
                       ~health.ok /\ cfg.api_failure_halt,
                       LossLimitReached(pnl, max_loss_x100)
                           /\ cfg.max_daily_loss_halt)
    IN  IF matched = "disabled"
        THEN [store |-> s,
              result |-> ExitBotResult(TRUE, FALSE, "", eq, eq - day_start),
              set_halts |-> 0, flattens |-> 0, flatten_error |-> ""]
        ELSE IF matched = "halted"
        THEN [store |-> s0,
              result |-> ExitBotResult(FALSE, TRUE, get_status(s0).reason, eq, 0),
              set_halts |-> 0, flattens |-> 0, flatten_error |-> ""]
        ELSE IF matched = "health"
        THEN exitbot_trip(s0, t, cfg.credentials,
                 "HEALTH_FAIL: " \o health.reason, "", eq, 0, sc1, sc2)
        ELSE IF matched = "loss"
        THEN exitbot_trip(s0, t, cfg.credentials,
                 "MAX_DAILY_LOSS: pnl=" \o Fmt2(pnl) \o " <= -"
                     \o FmtCents(max_loss_x100),
                 " + CANNOT_FLATTEN: no credentials", eq, pnl, sc1, sc2)
        ELSE [store |-> s0,
              result |-> ExitBotResult(TRUE, FALSE, "", eq, pnl),
              set_halts |-> 0, flattens |-> 0, flatten_error |-> ""]

(***************************************************************************)
(* orchestrator.py: TradingOrchestrator                                    *)
(***************************************************************************)
\* clock.get_date_string() on day number d
get_date_string(d) == "2024-01-0" \o ToString(d + 1)

\* a stored baseline tested against the floor alone
BaselineBelowFloor(stored, eq) ==
    \/ stored = 0
    \/ stored < BaselineFloor

\* a stored baseline that Step 1 replaces by the current equity
BaselineImplausible(stored, eq) ==
    \/ stored = 0
    \/ stored < BaselineFloor
    \/ stored * 10 < eq

\* _step_initialize after the account fetch: the day's baseline, then
\* clear_if_expired
\* a reset that writes the key of the date and leaves the global one
establish_baseline_dated(s, t, d, eq) ==
    LET day_start_key == "day_start_equity_" \o get_date_string(d)
        stored == get_state(s, day_start_key, 0)
        reset == BaselineImplausible(stored, eq)
    IN  [store |-> clear_if_expired(
                       IF reset THEN set_state(s, day_start_key, eq) ELSE s, t),
         day_start_equity |-> IF reset THEN eq ELSE stored]

establish_baseline(s, t, d, eq) ==
    LET day_start_key == "day_start_equity_" \o get_date_string(d)
        stored == get_state(s, day_start_key, 0)
        reset == BaselineImplausible(stored, eq)
        s1 == IF reset
              THEN set_state(set_state(s, day_start_key, eq),
                             "day_start_equity", eq)
              ELSE s
    IN  [store |-> clear_if_expired(s1, t),
         day_start_equity |-> IF reset THEN eq ELSE stored]

\* a wait that does not grow
wait_time_fixed(n) == 1

\* _step_initialize: the seconds slept after failed attempt number n
wait_time(n) == 2 ^ n

\* Step 4 entered without a worker to run
step4_whenever(continue, bots) == continue

\* Step 3 entered whatever Step 1 and Step 2 said
step3_always(continue) == TRUE

\* run_loop: whether Step 3 and Step 4 are entered
step3_eligible(continue) == continue

step4_eligible(continue, bots) == continue /\ Len(bots) > 0

\* the error classes looked for in the text as it is written
is_init_error_cased(e) ==
    \/ Contains(e, "credentials")
    \/ Contains(e, "init")
    \/ Contains(e, "budgets")

\* the error classes _step_finalize takes for a safe refusal
is_init_error(e) ==
    LET l == lower(e)
    IN  \/ Contains(l, "credentials")
        \/ Contains(l, "init")
        \/ Contains(l, "budgets")

has_errors(errs) == Len(errs) > 0

\* the list of workers taken for empty
bots_ran_never(bots) == FALSE

bots_ran(bots) == Len(bots) > 0

\* _step_finalize: status and success from what the iteration collected
classify(halted, bots, errs, reason) ==
    IF halted
        THEN [status |-> "HALTED: " \o reason, success |-> TRUE]
        ELSE IF has_errors(errs) /\ ~bots_ran(bots)
        THEN IF \E i \in 1..Len(errs) : is_init_error(errs[i])
             THEN [status |-> "FAIL_CLOSED: System failed safely without trading",
                   success |-> TRUE]
             ELSE [status |-> "ERROR: " \o Join(errs, "; "), success |-> FALSE]
        ELSE IF ~bots_ran(bots)
        THEN [status |-> "SKIPPED: No bots ran", success |-> TRUE]
        ELSE IF has_errors(errs)
        THEN [status |-> "PARTIAL: " \o ToString(Len(bots)) \o " bots with "
                         \o ToString(Len(errs)) \o " errors",
              success |-> FALSE]
        ELSE [status |-> "OK: " \o ToString(Len(bots)) \o " bots ran successfully",
              success |-> TRUE]

\* a Step 5 that hands back nothing
step_finalize_silent(s, t, bots, errs, reason) ==
    [success |-> TRUE, status |-> "", summary |-> "", timestamp |-> ""]

step_finalize(s, t, bots, errs, reason) ==
    LET c == classify(is_halted(s, t), bots, errs, reason)
    IN  [success |-> c.success,
         status |-> c.status,
         summary |-> "Trading Loop Summary:\n- Status: " \o c.status
                     \o "\n- Bots run: "
                     \o (IF Len(bots) > 0 THEN Join(bots, ", ") ELSE "None")
                     \o "\n- Errors: "
                     \o (IF Len(errs) > 0 THEN Join(errs, "; ") ELSE "None")
                     \o "\n- Timestamp: " \o isoformat(t),
         timestamp |-> isoformat(t)]

(***************************************************************************)
(* State.                                                                  *)
(***************************************************************************)
VARIABLES
    store,             \* the durable state store
    now,               \* the wall clock, in ticks
    today,             \* the calendar day
    config,            \* credentials and the toggles of settings/bots.yaml
    broker,            \* what the brokerage may answer while this process runs
    pc,                \* where run_loop is
    attempt,           \* _step_initialize: the account fetch attempt
    equity,            \* run_loop's locals
    day_start_equity,
    init_ok,
    init_error,
    should_continue,
    halt_reason,
    enabled_bots,
    bots_run,
    errors,
    exitbot_result,    \* what ExitBot.run returned in this iteration
    result,            \* the LoopResult of the last finished iteration
    ret,               \* what the last direct call of a core operation returned
    calls,             \* what this iteration has invoked so far
    audit,             \* observations kept across iterations
    runner             \* runner main: _running, the store connection, the signal

vars == << store, now, today, config, broker, pc, attempt, equity, day_start_equity,
           init_ok, init_error, should_continue, halt_reason, enabled_bots,
           bots_run, errors, exitbot_result, result, ret, calls, audit, runner >>

locals == << equity, day_start_equity, init_ok, init_error, should_continue,
             halt_reason, enabled_bots, bots_run, errors, exitbot_result >>

DefaultConfig ==
    [credentials |-> TRUE, bots_config_ok |-> TRUE, exitbot_enabled |-> TRUE,
     api_failure_halt |-> TRUE, max_daily_loss_halt |-> TRUE,
     portfoliobot_enabled |-> TRUE]

Off(f) == [DefaultConfig EXCEPT ![f] = FALSE]

\* the equity the brokerage may report; -1 is an answer get_account rejects
Equities == {0, 970, 980, 990, 1000}

\* a brokerage whose network always answers and whose account moves, and
\* one whose network fails and whose account stands still
Moving == [scripts |-> {<<"ok">>}, answers |-> Equities \cup {-1}]

Flaky == [scripts |-> Scripts, answers |-> {-1, 1000}]

Still == [scripts |-> {<<"ok">>}, answers |-> {1000}]

\* one whose account has two values, the lower below the loss limit
Falling == [scripts |-> {<<"ok">>}, answers |-> {970, 1000}]

\* the processes the model starts: everything switched on, or one thing off
Scenarios ==
    { <<DefaultConfig, Moving>>, <<DefaultConfig, Flaky>>,
      <<Off("credentials"), Still>>, <<Off("bots_config_ok"), Still>>,
      <<Off("exitbot_enabled"), Falling>>, <<Off("api_failure_halt"), Flaky>>,
      <<Off("max_daily_loss_halt"), Falling>>,
      <<Off("portfoliobot_enabled"), Still>> }

NoExitBotResult == ExitBotResult(TRUE, FALSE, "", 0, 0)

NoResult == [success |-> TRUE, status |-> "", summary |-> "", timestamp |-> ""]

\* no core operation has been called directly
NoReturn == [op |-> "", value |-> FALSE, seq |-> 0, expired |-> FALSE]

NoCalls ==
    [get_account |-> 0, waits |-> <<>>, last_error |-> "", bad_equity |-> 0,
     exitbot |-> 0, set_halt |-> 0, flatten |-> 0, flatten_error |-> "",
     halt_seen |-> FALSE, health_seen |-> TRUE,
     portfoliobot |-> 0, budgets_set |-> FALSE,
     execution |-> 0, workers_run |-> 0, worker_errors |-> 0]

\* runner main as it starts: _running is True and the store can be opened
RunnerUp == [running |-> TRUE, store_open |-> TRUE, signal_at |-> ""]

\* signal_handler: _running = False; `at` is where the main thread was
signal_handler(r, at) == [r EXCEPT !.running = FALSE, !.signal_at = at]

\* a loop test that does not look at _running
while_running_always(r) == TRUE

\* main: the test of `while _running`
while_running(r) == r.running

\* close_state_store
close_state_store(r) == [r EXCEPT !.store_open = FALSE]

NoAudit ==
    [first_day |-> -1, first_equity |-> 0, degraded_start |-> FALSE,
     trip_flattens |-> 0, prev_ok |-> FALSE]

FailureCount(s) == get_state(s, "health.api_failure_count", 0)

Init ==
    /\ store = EmptyStore
    /\ now = 0
    /\ today = 0
    /\ \E sn \in Scenarios : config = sn[1] /\ broker = sn[2]
    /\ pc = "start"
    /\ attempt = 0
    /\ equity = 0
    /\ day_start_equity = 0
    /\ init_ok = FALSE
    /\ init_error = ""
    /\ should_continue = TRUE
    /\ halt_reason = ""
    /\ enabled_bots = <<>>
    /\ bots_run = <<>>
    /\ errors = <<>>
    /\ exitbot_result = NoExitBotResult
    /\ result = NoResult
    /\ ret = NoReturn
    /\ runner = RunnerUp
    /\ calls = NoCalls
    /\ audit = NoAudit

(***************************************************************************)
(* The clock.                                                              *)
(***************************************************************************)
\* the steps whose code reads the clock: time passing before any other step
\* is time passing before the next of these
ClockRead == {"start", "step2", "step5"}

Tick ==
    /\ now < MaxTime
    /\ pc \in ClockRead
    /\ now' = now + 1
    /\ UNCHANGED << store, today, config, broker, ret, runner, pc, attempt, locals, result,
                    calls, audit >>

Midnight ==
    /\ now < MaxTime
    /\ pc = "start"
    /\ today < MaxDay
    /\ now' = now + 1
    /\ today' = today + 1
    /\ UNCHANGED << store, config, broker, ret, runner, pc, attempt, locals, result, calls,
                    audit >>

(***************************************************************************)
(* run_loop, step by step.                                                 *)
(***************************************************************************)
\* runner main: the LoopResult is logged, the locals of run_loop are gone,
\* and the runner sleeps until the next iteration
RunnerSleep ==
    /\ pc = "done"
    /\ pc' = "start"
    /\ attempt' = 0
    /\ equity' = 0
    /\ day_start_equity' = 0
    /\ init_ok' = FALSE
    /\ init_error' = ""
    /\ should_continue' = TRUE
    /\ halt_reason' = ""
    /\ enabled_bots' = <<>>
    /\ bots_run' = <<>>
    /\ errors' = <<>>
    /\ exitbot_result' = NoExitBotResult
    /\ calls' = NoCalls
    /\ result' = NoResult
    /\ audit' = [audit EXCEPT !.prev_ok =
                     result.success /\ StartsWith(result.status, "OK:")]
    /\ UNCHANGED << store, now, today, config, broker, ret, runner >>

\* run_loop is entered
LoopStart ==
    /\ pc = "start"
    /\ while_running(runner)
    /\ pc' = "step1"
    /\ UNCHANGED << attempt, locals, calls, result >>
    /\ audit' = [audit EXCEPT !.degraded_start =
                     /\ FailureCount(store) >= max_failures
                     /\ ~is_halted(store, now)]
    /\ UNCHANGED << store, now, today, config, broker, ret, runner >>

\* Step 1 has failed with `error`: run_loop records it and bypasses Step 2
InitFailed(error) ==
    /\ init_ok' = FALSE
    /\ init_error' = error
    /\ errors' = Append(errors, error)
    /\ should_continue' = FALSE
    /\ halt_reason' = "Init failed: " \o error
    /\ pc' = "step3"
    /\ UNCHANGED << equity, day_start_equity, enabled_bots, bots_run,
                    exitbot_result >>

\* _step_initialize: the credentials check
StepInitialize ==
    /\ pc = "step1"
    /\ IF ~config.credentials
       THEN /\ FailureCount(store) < MaxFailureCount
            /\ store' = record_api_failure(store, now)
            /\ InitFailed("ALPACA_KEY and ALPACA_SECRET required")
            /\ UNCHANGED << attempt, calls >>
       ELSE /\ pc' = "fetch"
            /\ UNCHANGED << store, attempt, locals, calls >>
    /\ UNCHANGED << now, today, config, broker, ret, runner, result, audit >>

\* _step_initialize: one attempt of the account fetch and what follows it
AccountFetch ==
    /\ pc = "fetch"
    /\ \E sc \in broker.scripts :
       \E answer \in (IF sc[Len(sc)] = "ok" THEN broker.answers ELSE {0}) :
        /\ FailureCount(store) + ScriptFailures(sc) <= MaxFailureCount
        /\ LET r == get_account(store, now, sc, answer)
               \* the call is counted, its error kept, and the first call
               \* answered with a non-positive equity remembered
               fetched == [calls EXCEPT
                              !.get_account = @ + 1,
                              !.last_error = r.error,
                              !.bad_equity =
                                  IF @ = 0 /\ sc[Len(sc)] = "ok" /\ answer <= 0
                                  THEN calls.get_account + 1 ELSE @]
           IN  IF r.ok /\ r.equity <= 0
               THEN /\ store' = r.store
                    /\ InitFailed("Invalid account equity: " \o FmtFloat(r.equity))
                    /\ calls' = fetched
                    /\ UNCHANGED << attempt, audit >>
               ELSE IF r.ok
               THEN LET b == establish_baseline(r.store, now, today, r.equity)
                    IN  /\ store' = b.store
                        /\ equity' = r.equity
                        /\ day_start_equity' = b.day_start_equity
                        /\ init_ok' = TRUE
                        /\ pc' = "step2"
                        /\ calls' = fetched
                        /\ audit' = IF audit.first_day = today THEN audit
                                    ELSE [audit EXCEPT !.first_day = today,
                                                       !.first_equity = r.equity]
                        /\ UNCHANGED << attempt, init_error, should_continue,
                                        halt_reason, enabled_bots, bots_run,
                                        errors, exitbot_result >>
               ELSE IF attempt < max_retries - 1
               THEN /\ store' = r.store
                    /\ attempt' = attempt + 1
                    /\ calls' = [fetched EXCEPT !.waits = Append(@, wait_time(attempt))]
                    /\ UNCHANGED << pc, locals, audit >>
               ELSE /\ store' = r.store
                    /\ InitFailed("Failed to fetch account (attempt "
                           \o ToString(attempt + 1) \o "): " \o r.error)
                    /\ calls' = fetched
                    /\ UNCHANGED << attempt, audit >>
    /\ UNCHANGED << now, today, config, broker, ret, runner, result >>

\* run_loop: Step 2, reached only after a successful Step 1
StepExitbot ==
    /\ pc = "step2"
    /\ \E fs \in (IF exitbot_run(store, now, config, equity, day_start_equity,
                                  <<"ok">>, <<"ok">>).flattens > 0
                 THEN FlattenScripts(broker.scripts)
                 ELSE {<< <<"ok">>, <<"ok">> >>}) :
        LET sc1 == fs[1]
            sc2 == fs[2]
            r == exitbot_run(store, now, config, equity, day_start_equity,
                             sc1, sc2)
        IN  /\ FailureCount(r.store) <= MaxFailureCount
            /\ store' = r.store
            /\ exitbot_result' = r.result
            /\ should_continue' = r.result.should_continue
            /\ halt_reason' = r.result.halt_reason
            /\ errors' = IF r.result.should_continue THEN errors
                         ELSE Append(errors, r.result.halt_reason)
            /\ calls' = [calls EXCEPT !.exitbot = @ + 1,
                                      !.halt_seen = is_halted(store, now),
                                      !.health_seen =
                                          get_snapshot(clear_if_expired(store, now),
                                                       now).ok,
                                      !.set_halt = @ + r.set_halts,
                                      !.flatten = @ + r.flattens,
                                      !.flatten_error = r.flatten_error]
            /\ audit' = [audit EXCEPT !.trip_flattens =
                            IF r.set_halts > 0 THEN r.flattens
                            ELSE @ + r.flattens]
    /\ pc' = "step3"
    /\ UNCHANGED << now, today, config, broker, ret, runner, attempt, equity, day_start_equity,
                    init_ok, init_error, enabled_bots, bots_run, result >>

\* run_loop: Step 3
StepPortfoliobot ==
    /\ pc = "step3"
    /\ IF step3_eligible(should_continue)
       THEN LET r == portfoliobot_run(store, config.portfoliobot_enabled, equity)
            IN  /\ store' = r.store
                /\ enabled_bots' = IF r.budgets_set THEN r.enabled_bots
                                   ELSE enabled_bots
                /\ errors' = IF r.budgets_set THEN errors
                             ELSE Append(errors,
                                      IF r.error # "" THEN r.error
                                      ELSE "Budgets not set")
                /\ calls' = [calls EXCEPT !.portfoliobot = @ + 1,
                                          !.budgets_set = r.budgets_set]
       ELSE UNCHANGED << store, enabled_bots, errors, calls >>
    /\ pc' = "step4"
    /\ UNCHANGED << now, today, config, broker, ret, runner, attempt, equity, day_start_equity,
                    init_ok, init_error, should_continue, halt_reason, bots_run,
                    exitbot_result, result, audit >>

\* run_loop: Step 4
StepExecution ==
    /\ pc = "step4"
    /\ IF step4_eligible(should_continue, enabled_bots)
       THEN \E outcomes \in [1..Len(enabled_bots) -> {"ok", "raise"}] :
               LET r == execution_run(store, now, enabled_bots, outcomes)
               IN  /\ store' = r.store
                   /\ bots_run' = r.bots_run
                   /\ errors' = errors \o r.errors
                   /\ calls' = [calls EXCEPT !.execution = @ + 1,
                                             !.workers_run = Len(r.bots_run),
                                             !.worker_errors = Len(r.errors)]
       ELSE UNCHANGED << store, bots_run, errors, calls >>
    /\ pc' = "step5"
    /\ UNCHANGED << now, today, config, broker, ret, runner, attempt, equity, day_start_equity,
                    init_ok, init_error, should_continue, halt_reason,
                    enabled_bots, exitbot_result, result, audit >>

\* run_loop: Step 5 and the return of the LoopResult
StepFinalize ==
    /\ pc = "step5"
    /\ result' = step_finalize(store, now, bots_run, errors, halt_reason)
    /\ store' = clear_if_expired(store, now)
    /\ pc' = "done"
    /\ UNCHANGED << now, today, config, broker, ret, runner, attempt, locals, calls, audit >>

Next ==
    \/ Tick
    \/ Midnight
    \/ RunnerSleep
    \/ LoopStart
    \/ StepInitialize
    \/ AccountFetch
    \/ StepExitbot
    \/ StepPortfoliobot
    \/ StepExecution
    \/ StepFinalize

Spec == Init /\ [][Next]_vars

(***************************************************************************)
(* Vocabulary of the properties.                                           *)
(***************************************************************************)
StatusKinds == {"HALTED", "FAIL_CLOSED", "ERROR", "SKIPPED", "PARTIAL", "OK"}

\* the kind a status string announces
StatusIs(kind) == StartsWith(result.status, kind \o ":")

\* the iteration is past Step 2
PastStep2 == pc \in {"step3", "step4", "step5", "done"}

\* a worker was executed in this iteration
WorkerExecuted == calls.workers_run > 0 \/ Len(bots_run) > 0

\* ExitBot.run is about to be called, and has returned
ExitbotCall == pc = "step2" /\ pc' = "step3"

\* the four halt keys are what they were
HaltKeysUnchanged ==
    \A k \in {"halt.active", "halt.reason", "halt.halted_at", "halt.expires_at"} :
        /\ has_key(store', k) <=> has_key(store, k)
        /\ has_key(store, k) => store'[k] = store[k]

(***************************************************************************)
(* C1.  Fail-closed sequencing: in an iteration in which Step 1 failed or  *)
(* the Kill-Switch returned should_continue = false, neither the Budget    *)
(* Allocator nor the execution collaborator is invoked; when Step 1 failed *)
(* the Kill-Switch is not invoked either and the halt reason of the        *)
(* iteration is "Init failed: <error>".                                    *)
(***************************************************************************)
C1_FailClosedSequencing ==
    /\ (PastStep2 /\ (~init_ok \/ ~exitbot_result.should_continue))
           => (calls.portfoliobot = 0 /\ calls.execution = 0)
    /\ (PastStep2 /\ ~init_ok)
           => (calls.exitbot = 0 /\ halt_reason = "Init failed: " \o init_error
               /\ init_error # "")

\* an iteration ended after the Kill-Switch refused to continue
C1_Witness ==
    /\ pc = "done"
    /\ init_ok
    /\ calls.exitbot = 1
    /\ ~exitbot_result.should_continue

(***************************************************************************)
(* C2.  Daily loss bound: with the kill-switch and its loss condition      *)
(* enabled and credentials present, no worker is executed in an iteration  *)
(* that fetched an equity at or below E0 - E0 * max_loss_pct / 100, E0      *)
(* being the equity the first iteration of that calendar day observed,     *)
(* whatever positive value E0 has.                                         *)
(***************************************************************************)
C2_DailyLossBound ==
    ( /\ pc = "done"
      /\ config.credentials
      /\ config.bots_config_ok
      /\ config.exitbot_enabled
      /\ config.max_daily_loss_halt
      /\ init_ok
      /\ audit.first_day = today
      /\ audit.first_equity > 0
      /\ equity * 100 <= audit.first_equity * (100 - max_loss_pct) )
    => ~WorkerExecuted

(***************************************************************************)
(* C3.  Degraded start: when an iteration starts with the persisted API    *)
(* failure count at or above max_api_failures_in_window and no halt        *)
(* active (kill-switch and its health condition enabled, credentials       *)
(* present), no worker is executed in that iteration.                      *)
(***************************************************************************)
C3_DegradedStartStopsTrading ==
    ( /\ pc = "done"
      /\ audit.degraded_start
      /\ config.credentials
      /\ config.bots_config_ok
      /\ config.exitbot_enabled
      /\ config.api_failure_halt )
    => ~WorkerExecuted

(***************************************************************************)
(* C4.  Whenever Step 1 fails, the LoopResult of the iteration has status  *)
(* FAIL_CLOSED and success = true, and no worker has run.                  *)
(***************************************************************************)
C4_InitFailureIsFailClosed ==
    (pc = "done" /\ ~init_ok)
    => (StatusIs("FAIL_CLOSED") /\ result.success /\ ~WorkerExecuted)

(***************************************************************************)
(* C5.  Whenever Step 2 stops an iteration because a halt is already       *)
(* active or because the Kill-Switch has just tripped one, the LoopResult  *)
(* of the iteration has status HALTED and success = true.                  *)
(***************************************************************************)
C5_HaltStopIsHalted ==
    ( /\ pc = "done"
      /\ config.bots_config_ok
      /\ calls.exitbot = 1
      /\ exitbot_result.is_halted
      /\ ~exitbot_result.should_continue )
    => (StatusIs("HALTED") /\ result.success)

(***************************************************************************)
(* Step 5 on its own: _step_finalize applied to every combination of a     *)
(* halt (none, standing, expired), a list of workers and a list of errors. *)
(***************************************************************************)
MaxErrors == 2

ErrorTexts ==
    { "ALPACA_KEY and ALPACA_SECRET required",
      "Budgets not set",
      "mom_AAPL: " \o BotErrorText,
      "MAX_DAILY_LOSS: pnl=-20.00 <= -20.00 + CANNOT_FLATTEN: no credentials",
      "HEALTH_FAIL: Data stale (2s > 1s)" }

ErrorLists == UNION { [1..n -> ErrorTexts] : n \in 0..MaxErrors }

WorkerLists == { <<>>, <<"mom_AAPL">>, <<"mom_AAPL", "crypto_core">> }

FinalizeInit ==
    /\ store \in { EmptyStore,
                   set_halt(EmptyStore, "HEALTH_FAIL: Data stale (2s > 1s)",
                            cooloff, 0) }
    /\ now \in 0..MaxTime
    /\ today = 0
    /\ config = DefaultConfig
    /\ broker = Still
    /\ pc = "step5"
    /\ attempt = 0
    /\ equity = 1000
    /\ day_start_equity = 1000
    /\ init_ok = TRUE
    /\ init_error = ""
    /\ should_continue = TRUE
    /\ halt_reason \in {"", "HEALTH_FAIL: Data stale (2s > 1s)"}
    /\ enabled_bots = <<>>
    /\ bots_run \in WorkerLists
    /\ errors \in ErrorLists
    /\ exitbot_result = NoExitBotResult
    /\ result = NoResult
    /\ ret = NoReturn
    /\ runner = RunnerUp
    /\ calls = NoCalls
    /\ audit = NoAudit

FinalizeNext == StepFinalize

FinalizeSpec == FinalizeInit /\ [][FinalizeNext]_vars

\* some error names an initialization, credentials or budget cause
InitClassError ==
    \E i \in 1..Len(errors) : \E w \in {"credentials", "init", "budgets"} :
        Contains(lower(errors[i]), w)

\* the status the table of the specification gives
ExpectedKind ==
    IF get_state(store, "halt.active", FALSE) THEN "HALTED"
    ELSE IF errors # <<>> /\ bots_run = <<>> /\ InitClassError THEN "FAIL_CLOSED"
    ELSE IF errors # <<>> /\ bots_run = <<>> THEN "ERROR"
    ELSE IF bots_run = <<>> THEN "SKIPPED"
    ELSE IF errors # <<>> THEN "PARTIAL"
    ELSE "OK"

(***************************************************************************)
(* C6.  Step 5 maps every combination of (halt active, errors, workers     *)
(* ran, an error of the init/credentials/budget class) to exactly one of   *)
(* HALTED, FAIL_CLOSED, ERROR, SKIPPED, PARTIAL, OK as the specification   *)
(* defines them, and success is false exactly for ERROR and PARTIAL.       *)
(***************************************************************************)
C6_StatusTable ==
    pc = "done" =>
        /\ \A k \in StatusKinds : StatusIs(k) <=> k = ExpectedKind
        /\ result.success <=> ExpectedKind \notin {"ERROR", "PARTIAL"}

\* a refusal whose only error names its class in capitals
C6_Witness ==
    /\ pc = "done"
    /\ errors = <<"Budgets not set">>
    /\ StatusIs("FAIL_CLOSED")
    /\ result.success

(***************************************************************************)
(* C7.  With credentials present, the account fetched with positive        *)
(* equity, no halt active, health ok, pnl within the loss bound, the       *)
(* allocation done and the execution collaborator reporting at least one   *)
(* worker and no error, the LoopResult is OK with success = true, in the   *)
(* first iteration and in every one that follows under the same            *)
(* conditions.                                                             *)
(***************************************************************************)
C7_HealthyIterationIsOk ==
    ( /\ pc = "done"
      /\ config.credentials
      /\ init_ok
      /\ equity > 0
      /\ calls.exitbot = 1
      /\ ~calls.halt_seen
      /\ calls.health_seen
      /\ (equity - day_start_equity) * 100 > -(day_start_equity * max_loss_pct)
      /\ calls.portfoliobot = 1
      /\ calls.budgets_set
      /\ calls.execution = 1
      /\ calls.workers_run > 0
      /\ calls.worker_errors = 0 )
    => (StatusIs("OK") /\ result.success)

\* the second of two consecutive healthy iterations
C7_Witness ==
    /\ pc = "done"
    /\ audit.prev_ok
    /\ calls.exitbot = 1
    /\ ~calls.halt_seen
    /\ calls.health_seen
    /\ calls.workers_run > 0
    /\ calls.worker_errors = 0
    /\ StatusIs("OK")
    /\ result.success

\* the conditions under which ExitBot.run reaches its loss check
LossCheckReached ==
    /\ config.bots_config_ok
    /\ config.exitbot_enabled
    /\ ~is_halted(store, now)
    /\ get_snapshot(clear_if_expired(store, now), now).ok

(***************************************************************************)
(* C8.  With the kill-switch enabled, no halt active, health ok and the    *)
(* loss condition enabled, ExitBot.run activates a halt with a             *)
(* MAX_DAILY_LOSS reason and returns should_continue = false if and only   *)
(* if equity - day_start_equity <= -(day_start_equity * pct / 100);        *)
(* otherwise it returns should_continue = true and writes no halt.  On a   *)
(* baseline of 10000 at 2%, a pnl of -250 trips and a pnl of -150 does     *)
(* not.                                                                    *)
(***************************************************************************)
C8_LossLimitTripsExactly ==
    [][ /\ LossLimitReached(-250, dollars_from_pct_x100(10000, 2))
        /\ ~LossLimitReached(-150, dollars_from_pct_x100(10000, 2))
        /\ (ExitbotCall /\ LossCheckReached /\ config.max_daily_loss_halt) =>
            IF (equity - day_start_equity) * 100
                   <= -(day_start_equity * max_loss_pct)
            THEN /\ ~exitbot_result'.should_continue
                 /\ StartsWith(exitbot_result'.halt_reason, "MAX_DAILY_LOSS: ")
                 /\ calls'.set_halt = calls.set_halt + 1
                 /\ get_state(store', "halt.active", FALSE)
                 /\ StartsWith(get_state(store', "halt.reason", ""),
                               "MAX_DAILY_LOSS: ")
            ELSE /\ exitbot_result'.should_continue
                 /\ exitbot_result'.halt_reason = ""
                 /\ calls'.set_halt = calls.set_halt
                 /\ ~get_state(store', "halt.active", FALSE)
      ]_vars

\* the loss limit tripped by a loss of exactly the limit
C8_Witness ==
    /\ pc = "step3"
    /\ calls.exitbot = 1
    /\ day_start_equity = 1000
    /\ equity = 980
    /\ StartsWith(exitbot_result.halt_reason, "MAX_DAILY_LOSS: ")
    /\ get_state(store, "halt.active", FALSE)

(***************************************************************************)
(* C9.  When health is not ok and the health condition is enabled          *)
(* (kill-switch enabled, no halt active), ExitBot.run activates a halt     *)
(* with reason "HEALTH_FAIL: <health reason>", attempts the liquidation    *)
(* and returns should_continue = false; when the liquidation fails the     *)
(* halt is still active afterwards and the halt reason ExitBot.run returns *)
(* ends with " + FLATTEN_FAILED: <error>".                                 *)
(***************************************************************************)
C9_HealthFailTrips ==
    [][ ( /\ ExitbotCall
          /\ config.bots_config_ok
          /\ config.exitbot_enabled
          /\ config.api_failure_halt
          /\ ~is_halted(store, now)
          /\ ~get_snapshot(clear_if_expired(store, now), now).ok ) =>
            LET health == get_snapshot(clear_if_expired(store, now), now)
                reason == "HEALTH_FAIL: " \o health.reason
            IN  /\ calls'.set_halt = calls.set_halt + 1
                /\ get_state(store', "halt.active", FALSE)
                /\ get_state(store', "halt.reason", "") = reason
                /\ calls'.flatten = calls.flatten + 1
                /\ ~exitbot_result'.should_continue
                /\ exitbot_result'.is_halted
                /\ exitbot_result'.halt_reason =
                       IF calls'.flatten_error = "" THEN reason
                       ELSE reason \o " + FLATTEN_FAILED: "
                                \o calls'.flatten_error
      ]_vars

\* a health trip whose liquidation failed
C9_Witness ==
    /\ pc = "step3"
    /\ calls.exitbot = 1
    /\ calls.flatten = 1
    /\ calls.flatten_error # ""
    /\ StartsWith(exitbot_result.halt_reason, "HEALTH_FAIL: ")
    /\ Contains(exitbot_result.halt_reason, " + FLATTEN_FAILED: ")
    /\ get_state(store, "halt.active", FALSE)

(***************************************************************************)
(* C10.  While a halt is active and the kill-switch is enabled, every      *)
(* ExitBot.run returns should_continue = false with the stored reason and  *)
(* calls neither flatten nor set_halt: the liquidation is attempted at     *)
(* most once per trip, and the reason and expires_at of the halt are not   *)
(* changed by later iterations.                                            *)
(***************************************************************************)
C10_HaltedRunIsInert ==
    [][ ( /\ ExitbotCall
          /\ config.bots_config_ok
          /\ config.exitbot_enabled
          /\ is_halted(store, now) ) =>
            /\ ~exitbot_result'.should_continue
            /\ exitbot_result'.is_halted
            /\ exitbot_result'.halt_reason = store["halt.reason"]
            /\ calls'.flatten = calls.flatten
            /\ calls'.set_halt = calls.set_halt
            /\ HaltKeysUnchanged
            /\ audit'.trip_flattens <= 1
      ]_vars

\* an iteration that met the halt an earlier one had tripped
C10_Witness ==
    /\ pc = "step3"
    /\ calls.exitbot = 1
    /\ calls.halt_seen
    /\ calls.set_halt = 0
    /\ calls.flatten = 0
    /\ audit.trip_flattens = 1
    /\ ~exitbot_result.should_continue
    /\ exitbot_result.halt_reason # ""
    /\ exitbot_result.halt_reason = get_state(store, "halt.reason", "")

(***************************************************************************)
(* The core on its own: a caller that invokes the operations of the Halt   *)
(* Manager and of the Health Monitor directly, in any order and at any     *)
(* time, on a store that starts empty.                                     *)
(***************************************************************************)
MaxCooloff == 2

HaltReasons ==
    { "HEALTH_FAIL: Data stale (2s > 1s)",
      "MAX_DAILY_LOSS: pnl=-20.00 <= -20.00" }

HaltKeys == {"halt.active", "halt.reason", "halt.halted_at", "halt.expires_at"}

\* everything but the store, the clock and the value returned
loop_state == << today, config, broker, pc, attempt, locals, result, calls,
                 audit, runner >>

\* the return of operation op: seq counts the consecutive calls of op, and
\* expired tells that one of them met a halt past its expiry
Returned(op, value, met_expired) ==
    [op |-> op, value |-> value,
     seq |-> IF ret.op = op THEN Min(ret.seq + 1, 2) ELSE 1,
     expired |-> met_expired \/ (ret.op = op /\ ret.expired)]

\* a halt is stored and the clock is past its expires_at
PastExpiry(s, t) ==
    /\ has_key(s, "halt.expires_at")
    /\ t > fromisoformat(replaceZ(s["halt.expires_at"]))

CoreInit ==
    /\ Init
    /\ config = DefaultConfig
    /\ broker = Moving

CoreTick ==
    /\ now < MaxTime
    /\ now' = now + 1
    /\ ret' = NoReturn
    /\ UNCHANGED << store, loop_state >>

CallSetHalt ==
    /\ \E reason \in HaltReasons : \E cooloff_minutes \in 1..MaxCooloff :
        /\ store' = set_halt(store, reason, cooloff_minutes, now)
        /\ ret' = Returned("set_halt",
                      [reason |-> reason, cooloff_minutes |-> cooloff_minutes,
                       over |-> get_state(store, "halt.reason", "")], FALSE)
    /\ UNCHANGED << now, loop_state >>

CallClearHalt ==
    /\ store' = clear_halt(store)
    /\ ret' = Returned("clear_halt", FALSE, FALSE)
    /\ UNCHANGED << now, loop_state >>

CallClearIfExpired ==
    /\ store' = clear_if_expired(store, now)
    /\ ret' = Returned("clear_if_expired", PastExpiry(store, now),
                       PastExpiry(store, now))
    /\ UNCHANGED << now, loop_state >>

CallIsHalted ==
    /\ store' = clear_if_expired(store, now)
    /\ ret' = Returned("is_halted", is_halted(store, now), PastExpiry(store, now))
    /\ UNCHANGED << now, loop_state >>

CallGetStatus ==
    /\ ret' = Returned("get_status", get_status(store), FALSE)
    /\ UNCHANGED << store, now, loop_state >>

CallRecordApiFailure ==
    /\ FailureCount(store) < MaxFailureCount
    /\ store' = record_api_failure(store, now)
    /\ ret' = Returned("record_api_failure", FailureCount(store), FALSE)
    /\ UNCHANGED << now, loop_state >>

CallRecordPriceTick ==
    /\ store' = record_price_tick(store, now)
    /\ ret' = Returned("record_price_tick", FailureCount(store), FALSE)
    /\ UNCHANGED << now, loop_state >>

CallGetSnapshot ==
    /\ \E max_api_failures \in 1..MaxFailureCount : \E max_staleness \in 0..MaxTime :
        ret' = Returned("get_snapshot",
                   [snapshot |-> get_snapshot_under(store, now, max_api_failures,
                                                    max_staleness),
                    max_api_failures |-> max_api_failures,
                    max_staleness |-> max_staleness], FALSE)
    /\ UNCHANGED << store, now, loop_state >>

CoreNext ==
    \/ CoreTick
    \/ CallSetHalt
    \/ CallClearHalt
    \/ CallClearIfExpired
    \/ CallIsHalted
    \/ CallGetStatus
    \/ CallRecordApiFailure
    \/ CallRecordPriceTick
    \/ CallGetSnapshot

CoreSpec == CoreInit /\ [][CoreNext]_vars

\* the clock reading a stored time stamp stands for
StoredTime(key) == fromisoformat(replaceZ(store[key]))

\* the store holds none of the halt keys
NoHaltKeys(s) == \A k \in HaltKeys : ~has_key(s, k)

\* every key outside `keys` is what it was
KeysOutsideUnchanged(keys) ==
    /\ (DOMAIN store') \ keys = (DOMAIN store) \ keys
    /\ \A k \in (DOMAIN store) \ keys : store'[k] = store[k]

(***************************************************************************)
(* C11.  is_halted() returns false whenever now >= expires_at of the       *)
(* stored halt, the instant now = expires_at included: a caller to whom    *)
(* is_halted() has answered true holds a halt whose expires_at is still    *)
(* ahead of the clock.                                                     *)
(***************************************************************************)
C11_NoHaltSeenAtExpiry ==
    (ret.op = "is_halted" /\ ret.value)
    => (has_key(store, "halt.expires_at") /\ now < StoredTime("halt.expires_at"))

(***************************************************************************)
(* C12.  Every HaltStatus that get_status() returns has active = true if   *)
(* and only if a halt record exists and now < expires_at.                  *)
(***************************************************************************)
C12_StatusActiveIffUnexpired ==
    ret.op = "get_status"
    => ( ret.value.active
         <=> ( /\ has_key(store, "halt.active")
               /\ has_key(store, "halt.expires_at")
               /\ now < StoredTime("halt.expires_at") ) )

(***************************************************************************)
(* C13.  Once the clock is past the expires_at of a halt, every call of    *)
(* is_halted() returns false; the first such call removes the four halt    *)
(* keys and nothing else, and the calls that follow it leave the store as  *)
(* it is.                                                                  *)
(***************************************************************************)
C13_ExpiryIsIdempotent ==
    [][ (ret'.op = "is_halted" /\ ret'.expired) =>
            /\ ~ret'.value
            /\ NoHaltKeys(store')
            /\ KeysOutsideUnchanged(HaltKeys)
            /\ (~PastExpiry(store, now) => store' = store)
            /\ clear_if_expired(store', now') = store'
            /\ ~is_halted(store', now')
      ]_vars

\* is_halted() called a second time after it has cleared an expired halt
C13_Witness ==
    /\ ret.op = "is_halted"
    /\ ret.seq = 2
    /\ ret.expired
    /\ ~ret.value
    /\ NoHaltKeys(store)

(***************************************************************************)
(* C14.  After set_halt(reason, cooloff_minutes), called with or without   *)
(* a halt standing, the halt record is exactly active = true, the reason   *)
(* given, halted_at = now and expires_at = now + cooloff: nothing of an    *)
(* earlier halt remains, and no other key is touched.                      *)
(***************************************************************************)
C14_SetHaltOverwrites ==
    [][ ret'.op = "set_halt" =>
            /\ HaltKeys \subseteq DOMAIN store'
            /\ store'["halt.active"] = TRUE
            /\ store'["halt.reason"] = ret'.value.reason
            /\ fromisoformat(replaceZ(store'["halt.halted_at"])) = now
            /\ fromisoformat(replaceZ(store'["halt.expires_at"]))
                   = now + ret'.value.cooloff_minutes
            /\ KeysOutsideUnchanged(HaltKeys)
      ]_vars

\* a halt set later, for another reason, over a standing one
C14_Witness ==
    /\ ret.op = "set_halt"
    /\ ret.value.over # ""
    /\ ret.value.over # ret.value.reason
    /\ now > 0
    /\ store["halt.reason"] = ret.value.reason
    /\ StoredTime("halt.halted_at") = now

(***************************************************************************)
(* C15.  get_snapshot() returns ok = (failure_count < max_failures) and    *)
(* (staleness_seconds <= max_staleness), where staleness_seconds is        *)
(* now - last_success_at, and 0 when no success was ever recorded, for     *)
(* every persisted counter, last-success time stamp and thresholds.        *)
(***************************************************************************)
C15_SnapshotOk ==
    ret.op = "get_snapshot" =>
        LET failure_count == IF has_key(store, "health.api_failure_count")
                             THEN store["health.api_failure_count"] ELSE 0
            staleness == IF has_key(store, "health.last_price_tick")
                         THEN now - StoredTime("health.last_price_tick") ELSE 0
        IN  /\ ret.value.snapshot.ok
                   <=> ( /\ failure_count < ret.value.max_api_failures
                         /\ staleness <= ret.value.max_staleness )
            /\ ret.value.snapshot.stale_seconds = staleness
            /\ ret.value.snapshot.api_failures = failure_count

\* a snapshot taken at the staleness threshold, failures below their limit
C15_Witness ==
    /\ ret.op = "get_snapshot"
    /\ has_key(store, "health.last_price_tick")
    /\ ret.value.max_staleness > 0
    /\ ret.value.snapshot.stale_seconds = ret.value.max_staleness
    /\ FailureCount(store) > 0
    /\ ret.value.snapshot.ok

(***************************************************************************)
(* C16.  record_api_failure increases the persisted failure count by       *)
(* exactly 1; record_price_tick sets it to 0 and is the only operation of  *)
(* the core that ever decreases it.  With count = max_failures = 5 the     *)
(* snapshot is not ok, and after one record_price_tick it is ok with       *)
(* count 0.                                                                *)
(***************************************************************************)
C16_FailureCounter ==
    [][ /\ ret'.op = "record_api_failure"
            => FailureCount(store') = FailureCount(store) + 1
        /\ ret'.op = "record_price_tick"
            => ( /\ has_key(store', "health.api_failure_count")
                 /\ store'["health.api_failure_count"] = 0 )
        /\ FailureCount(store') < FailureCount(store)
            => ret'.op = "record_price_tick"
        /\ LET at_limit == set_state(EmptyStore, "health.api_failure_count", 5)
               ticked == record_price_tick(at_limit, now)
           IN  /\ ~get_snapshot_under(at_limit, now, 5, 15).ok
               /\ get_snapshot_under(ticked, now, 5, 15).ok
               /\ get_snapshot_under(ticked, now, 5, 15).api_failures = 0
      ]_vars

\* a price tick recorded with the counter at its limit
C16_Witness ==
    /\ ret.op = "record_price_tick"
    /\ ret.value >= max_failures
    /\ FailureCount(store) = 0
    /\ get_snapshot(store, now).ok

(***************************************************************************)
(* The baseline of Step 1 on its own: the account fetch of one iteration,  *)
(* started on every stored baseline (none, one of an earlier day, one of   *)
(* today) and answered with every equity.                                  *)
(***************************************************************************)
\* baselines an earlier iteration may have stored
StoredBaselines == {100, 500, 999, 1000, 1200, 1201}

\* what the account is worth now
BaselineEquities == {500, 999, 1000, 10000, 12000, 12010}

BaselineBroker == [scripts |-> {<<"ok">>}, answers |-> BaselineEquities]

\* the store an iteration of day d that fetched equity e has left
StoreWithBaseline(d, e) ==
    set_state(set_state(EmptyStore, "day_start_equity_" \o get_date_string(d), e),
              "day_start_equity", e)

BaselineInit ==
    /\ \E d \in 0..MaxDay :
        \/ /\ store = EmptyStore
           /\ audit = NoAudit
           /\ today = d
        \/ \E e \in StoredBaselines :
            /\ store = StoreWithBaseline(d, e)
            /\ audit = [NoAudit EXCEPT !.first_day = d, !.first_equity = e]
            /\ today \in d..MaxDay
    /\ now = 0
    /\ config = DefaultConfig
    /\ broker = BaselineBroker
    /\ pc = "fetch"
    /\ attempt = 0
    /\ equity = 0
    /\ day_start_equity = 0
    /\ init_ok = FALSE
    /\ init_error = ""
    /\ should_continue = TRUE
    /\ halt_reason = ""
    /\ enabled_bots = <<>>
    /\ bots_run = <<>>
    /\ errors = <<>>
    /\ exitbot_result = NoExitBotResult
    /\ result = NoResult
    /\ ret = NoReturn
    /\ runner = RunnerUp
    /\ calls = NoCalls

BaselineNext == AccountFetch

BaselineSpec == BaselineInit /\ [][BaselineNext]_vars

\* Step 1 is returning success
Step1Succeeds == pc = "fetch" /\ pc' = "step2"

(***************************************************************************)
(* C17.  After a successful Step 1 the baseline of the day is the fetched  *)
(* equity if none was stored for the current date, or the stored one was   *)
(* below the floor of 1000 or below 10% of the fetched equity (stored 500  *)
(* with equity 12000 gives 12000); otherwise the stored baseline is        *)
(* returned as it is and is not rewritten.                                 *)
(***************************************************************************)
C17_BaselineOncePerDay ==
    [][ /\ establish_baseline(StoreWithBaseline(0, 500), 0, 0, 12000)
               .day_start_equity = 12000
        /\ Step1Succeeds =>
            LET key == "day_start_equity_" \o get_date_string(today)
                reset == \/ ~has_key(store, key)
                         \/ store[key] < 1000
                         \/ store[key] * 10 < equity'
            IN  IF reset
                THEN /\ day_start_equity' = equity'
                     /\ store'[key] = equity'
                     /\ store'["day_start_equity"] = equity'
                ELSE /\ day_start_equity' = store[key]
                     /\ store'[key] = store[key]
                     /\ has_key(store', "day_start_equity")
                            <=> has_key(store, "day_start_equity")
                     /\ has_key(store, "day_start_equity")
                            => store'["day_start_equity"] = store["day_start_equity"]
      ]_vars

\* a baseline of 1200 met by an equity of more than ten times as much
C17_Witness ==
    /\ pc = "step2"
    /\ audit.first_day = today
    /\ audit.first_equity = 1200
    /\ equity = 12010
    /\ day_start_equity = 12010
    /\ store["day_start_equity_" \o get_date_string(today)] = 12010

\* Step 1 has returned in this iteration
PastStep1 == pc \in {"step2", "step3", "step4", "step5", "done"}

\* the waits of Step 1 follow `schedule` from its start
WaitsFollow(schedule) ==
    /\ Len(calls.waits) <= Len(schedule)
    /\ calls.waits = SubSeq(schedule, 1, Len(calls.waits))

\* what C18 says of the calls of Step 1, the waits apart
FetchDiscipline ==
    /\ calls.get_account <= 3
    /\ (PastStep1 /\ init_ok) => calls.get_account = Len(calls.waits) + 1
    /\ (PastStep1 /\ ~init_ok /\ calls.get_account = 3 /\ calls.last_error # "")
           => /\ init_error = "Failed to fetch account (attempt 3): "
                                  \o calls.last_error
              /\ errors = <<init_error>>

C19_BadEquityFailsAtOnce ==
    [][ calls'.bad_equity > 0 =>
            /\ calls'.get_account = calls'.bad_equity
            /\ pc' # "fetch"
            /\ ~init_ok'
            /\ \A d \in 0..MaxDay :
                 LET key == "day_start_equity_" \o get_date_string(d)
                 IN  /\ has_key(store', key) <=> has_key(store, key)
                     /\ has_key(store, key) => store'[key] = store[key]
            /\ calls'.exitbot = 0
            /\ calls'.portfoliobot = 0
            /\ calls'.execution = 0
      ]_vars

(***************************************************************************)
(* C20.  The execution collaborator is invoked at most once per iteration, *)
(* and exactly when the Kill-Switch allowed continuation and the Allocator *)
(* returned budgets_set = true with at least one enabled worker; an        *)
(* Allocator that fails or does nothing leaves no worker enabled for the   *)
(* iteration and never activates a halt.                                   *)
(***************************************************************************)
C20_ExecutionOnceWhenAllocated ==
    [][ /\ calls'.execution <= 1
        /\ pc' \in {"step5", "done"} =>
             ( calls'.execution = 1
               <=> ( /\ calls'.exitbot = 1
                     /\ exitbot_result'.should_continue
                     /\ calls'.portfoliobot = 1
                     /\ calls'.budgets_set
                     /\ Len(enabled_bots') > 0 ) )
        /\ (calls'.portfoliobot = 1 /\ ~calls'.budgets_set)
             => (enabled_bots' = <<>> /\ calls'.execution = 0 /\ bots_run' = <<>>)
        /\ (pc = "step3" /\ pc' = "step4") => HaltKeysUnchanged
      ]_vars

\* an iteration whose Allocator did nothing
C20_Witness ==
    /\ pc = "done"
    /\ calls.exitbot = 1
    /\ exitbot_result.should_continue
    /\ calls.portfoliobot = 1
    /\ ~calls.budgets_set
    /\ enabled_bots = <<>>
    /\ calls.execution = 0
    /\ ~get_state(store, "halt.active", FALSE)

(***************************************************************************)
(* The Allocator on its own: PortfolioBot.run called once, under any       *)
(* bots.yaml of a small family, on a store that an earlier iteration, run  *)
(* under some other bots.yaml, may have left behind.                       *)
(***************************************************************************)
MaxMomentum == 3

MomentumId(i) == "mom_" \o ToString(i)

\* the momentum_bots lists: up to MaxMomentum workers, each enabled or not
MomentumLists ==
    UNION { { [i \in 1..n |-> [bot_id |-> MomentumId(i), enabled |-> f[i]]] :
                f \in [1..n -> BOOLEAN] } : n \in 0..MaxMomentum }

\* momentum_bucket_pct_of_daily_risk
MomentumBuckets == {20, 50}

\* per_bot_min_pct_of_daily_risk and per_bot_max_pct_of_daily_risk; the last
\* pair is a bots.yaml whose minimum is above its maximum
Guardrails ==
    { [per_bot_min |-> 10, per_bot_max |-> 50],
      [per_bot_min |-> 30, per_bot_max |-> 40],
      [per_bot_min |-> 60, per_bot_max |-> 50] }

BotsConfigs ==
    { [ok |-> ok, enabled |-> en, momentum_bots |-> ml,
       optionsbot |-> [bot_id |-> "opt_core", enabled |-> oe],
       cryptobot |-> [bot_id |-> "crypto_core", enabled |-> ce],
       buckets |-> [momentum |-> mb, options |-> 50, crypto |-> 25],
       guardrails |-> g] :
        ok \in BOOLEAN, en \in BOOLEAN, ml \in MomentumLists,
        oe \in BOOLEAN, ce \in BOOLEAN, mb \in MomentumBuckets,
        g \in Guardrails }

\* a bots.yaml with every worker it can name switched on
AllOn ==
    [ok |-> TRUE, enabled |-> TRUE,
     momentum_bots |-> [i \in 1..MaxMomentum |->
                           [bot_id |-> MomentumId(i), enabled |-> TRUE]],
     optionsbot |-> [bot_id |-> "opt_core", enabled |-> TRUE],
     cryptobot |-> [bot_id |-> "crypto_core", enabled |-> TRUE],
     buckets |-> buckets, guardrails |-> guardrails]

\* the baselines Step 1 may have stored, and the equity of the call
AllocBaselines == {3000, 6000}

AllocEquities == {3000, 9000}

\* the stores the run may find: with or without today's baseline, untouched
\* by any Allocator or written by one that ran under AllOn
AllocStores ==
    LET bases == {EmptyStore} \cup {StoreWithBaseline(0, e) : e \in AllocBaselines}
    IN  bases \cup {PortfolioBot_run(s, AllOn, 3000).store : s \in bases}

AllocInit ==
    /\ store \in AllocStores
    /\ now = 0
    /\ today = 0
    /\ config = DefaultConfig
    /\ broker = Still
    /\ pc = "step3"
    /\ attempt = 0
    /\ equity = 0
    /\ day_start_equity = 0
    /\ init_ok = TRUE
    /\ init_error = ""
    /\ should_continue = TRUE
    /\ halt_reason = ""
    /\ enabled_bots = <<>>
    /\ bots_run = <<>>
    /\ errors = <<>>
    /\ exitbot_result = NoExitBotResult
    /\ result = NoResult
    /\ ret = NoReturn
    /\ runner = RunnerUp
    /\ calls = NoCalls
    /\ audit = NoAudit

\* PortfolioBot.run(equity) under the bots.yaml c
CallPortfolioBot ==
    /\ ret.op = ""
    /\ \E c \in BotsConfigs : \E e \in AllocEquities :
        LET r == PortfolioBot_run(store, c, e)
        IN  /\ store' = r.store
            /\ ret' = Returned("PortfolioBot.run",
                          [config |-> c, equity |-> e, before |-> store,
                           budgets_set |-> r.budgets_set,
                           daily_risk |-> r.daily_risk,
                           enabled_bots |-> r.enabled_bots,
                           error |-> r.error], FALSE)
    /\ UNCHANGED << now, loop_state >>

AllocNext == CallPortfolioBot

AllocSpec == AllocInit /\ [][AllocNext]_vars

\* the run has returned, and with budgets_set = true
Allocated == ret.op = "PortfolioBot.run" /\ ret.value.budgets_set

RECURSIVE SumSeq(_)
SumSeq(q) == IF Len(q) = 0 THEN 0 ELSE Head(q) + SumSeq(Tail(q))

\* the persisted max_daily_loss of the workers of the list, one after another
PersistedLosses(s, bots) ==
    [i \in 1..Len(bots) |->
        get_state(s, "budgets." \o bots[i].bot_id \o ".max_daily_loss", 0)]

\* the configured momentum workers that are enabled
MomentumEnabled == enabled_momentum(ret.value.config.momentum_bots)

\* C21: after a run that set budgets, the persisted max_daily_loss of the
\* momentum workers add up to no more than the momentum bucket's share of
\* the daily risk, daily_risk * momentum_bucket_pct / 100.  The sum is taken
\* over the enabled workers only, the reading kindest to the code.
C21_MomentumSumWithinBucket ==
    Allocated =>
        SumSeq(PersistedLosses(store, MomentumEnabled)) * 100
            <= ret.value.daily_risk * ret.value.config.buckets.momentum

\* every persisted momentum budget lies between the two guardrails
MomentumWithinGuardrails ==
    \A i \in 1..Len(ret.value.config.momentum_bots) :
        LET loss == PersistedLosses(store, ret.value.config.momentum_bots)[i]
            g == ret.value.config.guardrails
        IN  /\ loss * 100 >= ret.value.daily_risk * g.per_bot_min
            /\ loss * 100 <= ret.value.daily_risk * g.per_bot_max

WorkerIds ==
    {MomentumId(i) : i \in 1..MaxMomentum} \cup {"opt_core", "crypto_core"}

InSeq(x, q) == \E i \in 1..Len(q) : q[i] = x

\* C23: after a run that set budgets, every worker id with a
\* bots.<id>.enabled fact in the store has that fact true exactly when the
\* id is in the returned enabled list, also when an earlier iteration ran
\* under another configuration.
C23_EnabledFactsMatchList ==
    Allocated =>
        \A id \in WorkerIds :
            has_key(store, "bots." \o id \o ".enabled") =>
                (store["bots." \o id \o ".enabled"]
                    <=> InSeq(id, ret.value.enabled_bots))

\* C24: when bots.yaml cannot be loaded the run returns budgets_set = false,
\* a non-empty error and an empty enabled list, and the store (so every
\* budgets.* and bots.* key) is as it was.
C24_ConfigLoadFailure ==
    (ret.op = "PortfolioBot.run" /\ ~ret.value.config.ok) =>
        /\ ~ret.value.budgets_set
        /\ ret.value.error # ""
        /\ ret.value.enabled_bots = <<>>
        /\ store = ret.value.before

\* the load failed on a store that held the budgets of an earlier iteration
C24_Witness ==
    /\ ret.op = "PortfolioBot.run"
    /\ ~ret.value.config.ok
    /\ ret.value.error = ConfigErrorText
    /\ has_key(store, "budgets.opt_core.max_daily_loss")

\* C25: when the allocation is switched off the run returns
\* budgets_set = false with an empty error, and the whole store is as it was.
C25_DisabledIsInert ==
    (/\ ret.op = "PortfolioBot.run"
     /\ ret.value.config.ok
     /\ ~ret.value.config.enabled) =>
        /\ ~ret.value.budgets_set
        /\ ret.value.error = ""
        /\ store = ret.value.before

\* switched off, with workers configured, on a store that held budgets
C25_Witness ==
    /\ ret.op = "PortfolioBot.run"
    /\ ret.value.config.ok
    /\ ~ret.value.config.enabled
    /\ ret.value.config.cryptobot.enabled
    /\ Len(ret.value.config.momentum_bots) = 2
    /\ has_key(store, "bots.mom_1.enabled")

\* the keys that hold a baseline
BaselineKeys(s) == {k \in DOMAIN s : StartsWith(k, "day_start_equity")}

\* C26: the run writes no day_start_equity key, and the daily_risk it
\* returns is max_loss_pct percent of the stored day_start_equity, or of the
\* equity it was called with when no baseline is stored.
C26_BaselineReadOnly ==
    ret.op = "PortfolioBot.run" =>
        /\ BaselineKeys(store) = BaselineKeys(ret.value.before)
        /\ \A k \in BaselineKeys(store) : store[k] = ret.value.before[k]
        /\ ret.value.budgets_set =>
               ret.value.daily_risk * 100
                   = (IF has_key(ret.value.before, "day_start_equity")
                      THEN ret.value.before["day_start_equity"]
                      ELSE ret.value.equity) * max_loss_pct * BudgetScale

\* budgets set from a stored baseline that differs from the equity passed
C26_Witness ==
    /\ Allocated
    /\ has_key(store, "day_start_equity")
    /\ store["day_start_equity"] = 6000
    /\ ret.value.equity = 9000
    /\ ret.value.daily_risk = 120 * BudgetScale

(***************************************************************************)
(* The Execution Service on its own: ExecutionService.run called once with *)
(* any list of workers, on a store whose facts about each worker are in    *)
(* any of the conditions the preflight tells apart.                        *)
(***************************************************************************)
ExecWorkers == {"mom_AAPL", "opt_core", "crypto_core"}

\* what the store holds about one worker
Profiles ==
    {"ready", "disabled", "unknown", "not_allowed", "no_budget", "zero_budget",
     "negative_budget"}

WorkerFacts(s, id, profile) ==
    IF profile = "unknown" THEN s
    ELSE
    LET s1 == set_state(s, "bots." \o id \o ".enabled", profile # "disabled")
        s2 == set_state(s1, "bots." \o id \o ".allowed", profile # "not_allowed")
    IN  IF profile = "no_budget" THEN s2
        ELSE set_state(s2, "budgets." \o id \o ".max_daily_loss",
                 IF profile = "zero_budget" THEN 0
                 ELSE IF profile = "negative_budget" THEN -BudgetScale
                 ELSE 10 * BudgetScale)

ExecStores ==
    { WorkerFacts(WorkerFacts(WorkerFacts(EmptyStore, "mom_AAPL", f["mom_AAPL"]),
                              "opt_core", f["opt_core"]),
                  "crypto_core", f["crypto_core"]) :
        f \in [ExecWorkers -> Profiles] }

\* the lists of workers, none named twice
ExecLists ==
    UNION { { q \in [1..n -> ExecWorkers] :
                \A i, j \in 1..n : q[i] = q[j] => i = j } :
            n \in 0..Cardinality(ExecWorkers) }

ExecInit ==
    /\ store \in ExecStores
    /\ now = 0
    /\ today = 0
    /\ config = DefaultConfig
    /\ broker = Still
    /\ pc = "step4"
    /\ attempt = 0
    /\ equity = 0
    /\ day_start_equity = 0
    /\ init_ok = TRUE
    /\ init_error = ""
    /\ should_continue = TRUE
    /\ halt_reason = ""
    /\ enabled_bots = <<>>
    /\ bots_run = <<>>
    /\ errors = <<>>
    /\ exitbot_result = NoExitBotResult
    /\ result = NoResult
    /\ ret = NoReturn
    /\ runner = RunnerUp
    /\ calls = NoCalls
    /\ audit = NoAudit

\* ExecutionService.run(enabled, equity)
CallExecution ==
    /\ ret.op = ""
    /\ \E enabled \in ExecLists :
       \E outcomes \in [1..Len(enabled) -> {"ok", "raise"}] :
        LET r == execution_run(store, now, enabled, outcomes)
        IN  /\ store' = r.store
            /\ ret' = Returned("ExecutionService.run",
                          [enabled |-> enabled, outcomes |-> outcomes,
                           before |-> store, bots_run |-> r.bots_run,
                           errors |-> r.errors], FALSE)
    /\ UNCHANGED << now, loop_state >>

ExecNext == CallExecution

ExecSpec == ExecInit /\ [][ExecNext]_vars

Executed == ret.op = "ExecutionService.run"

\* the worker passed the preflight on the store the call found
Preflight(s, id) ==
    /\ has_key(s, "bots." \o id \o ".enabled") /\ s["bots." \o id \o ".enabled"]
    /\ has_key(s, "bots." \o id \o ".allowed") /\ s["bots." \o id \o ".allowed"]
    /\ has_key(s, "budgets." \o id \o ".max_daily_loss")
    /\ s["budgets." \o id \o ".max_daily_loss"] > 0

\* the i-th worker of the list got as far as its trading logic, which raised
Raised(i) ==
    /\ Preflight(ret.value.before, ret.value.enabled[i])
    /\ ret.value.outcomes[i] = "raise"

HasErrorFor(id) ==
    \E k \in 1..Len(ret.value.errors) : StartsWith(ret.value.errors[k], id \o ": ")

\* C27: a worker whose processing raises gets an error entry and stays out
\* of workers_run, every later worker of the list is still processed (run
\* when it passes the preflight and does not raise itself), there is one
\* error per raising worker, and the call returns its result.
C27_WorkerErrorsAreIsolated ==
    Executed =>
        /\ \A i \in 1..Len(ret.value.enabled) :
            Raised(i) =>
                /\ HasErrorFor(ret.value.enabled[i])
                /\ ~InSeq(ret.value.enabled[i], ret.value.bots_run)
                /\ \A j \in (i + 1)..Len(ret.value.enabled) :
                       (/\ Preflight(ret.value.before, ret.value.enabled[j])
                        /\ ret.value.outcomes[j] = "ok")
                           => InSeq(ret.value.enabled[j], ret.value.bots_run)
        /\ Len(ret.value.errors)
               = Cardinality({i \in 1..Len(ret.value.enabled) : Raised(i)})

\* the first of three ready workers raised and the other two were run
C27_Witness ==
    /\ Executed
    /\ Len(ret.value.enabled) = 3
    /\ Raised(1)
    /\ Len(ret.value.errors) = 1
    /\ Len(ret.value.bots_run) = 2

\* C28: every worker in workers_run was marked enabled and allowed with a
\* max_daily_loss above zero in the store the call found, and a worker of the
\* list whose budget is missing or not positive is neither run nor given an
\* error.
C28_OnlyFundedWorkersRun ==
    Executed =>
        /\ \A k \in 1..Len(ret.value.bots_run) :
               Preflight(ret.value.before, ret.value.bots_run[k])
        /\ \A i \in 1..Len(ret.value.enabled) :
               LET id == ret.value.enabled[i]
               IN  get_state(ret.value.before,
                             "budgets." \o id \o ".max_daily_loss", 0) <= 0
                       => /\ ~InSeq(id, ret.value.bots_run)
                          /\ ~HasErrorFor(id)

\* a list with a ready worker, one without a budget and one with a budget
\* of zero, whose trading logic would have raised: only the first is run
C28_Witness ==
    /\ Executed
    /\ Len(ret.value.enabled) = 3
    /\ ret.value.bots_run = <<ret.value.enabled[1]>>
    /\ ~has_key(ret.value.before,
                "budgets." \o ret.value.enabled[2] \o ".max_daily_loss")
    /\ get_state(ret.value.before,
                 "budgets." \o ret.value.enabled[3] \o ".max_daily_loss", 1) = 0
    /\ ret.value.outcomes[3] = "raise"
    /\ ret.value.errors = <<>>

(***************************************************************************)
(* The State Store on its own: a caller that sets, deletes and gets, in    *)
(* any order, values of the Python types below under a few keys.           *)
(***************************************************************************)
MaxOps == 3

StoreKeys == {"a", "b"}

\* not keys: set_state refuses them
BlankKeys == {" "}

None == [py |-> "NoneType", text |-> "None"]

\* 1, 2, "1", None, Decimal("1"), a datetime, and {(1, 2): 3}
PyValues ==
    { [py |-> "int", text |-> "1"], [py |-> "int", text |-> "2"],
      [py |-> "str", text |-> "1"], None,
      [py |-> "Decimal", text |-> "1"],
      [py |-> "datetime", text |-> "2024-01-01 00:00:00"],
      [py |-> "dict", text |-> "{(1, 2): 3}"] }

Defaults == {None, [py |-> "int", text |-> "0"]}

\* the calls made so far, oldest first
Log == IF ret.op = "" THEN <<>> ELSE ret.value.log

Logged(op, key, value, raised) ==
    Append(Log, [op |-> op, key |-> key, value |-> value, raised |-> raised])

StoreInit ==
    /\ store = EmptyStore
    /\ now = 0
    /\ today = 0
    /\ config = DefaultConfig
    /\ broker = Still
    /\ pc = "start"
    /\ attempt = 0
    /\ equity = 0
    /\ day_start_equity = 0
    /\ init_ok = FALSE
    /\ init_error = ""
    /\ should_continue = TRUE
    /\ halt_reason = ""
    /\ enabled_bots = <<>>
    /\ bots_run = <<>>
    /\ errors = <<>>
    /\ exitbot_result = NoExitBotResult
    /\ result = NoResult
    /\ ret = NoReturn
    /\ runner = RunnerUp
    /\ calls = NoCalls
    /\ audit = NoAudit

CallSetState ==
    /\ Len(Log) < MaxOps
    /\ \E key \in StoreKeys \cup BlankKeys : \E value \in PyValues :
        LET r == set_state_call(store, key, value)
        IN  /\ store' = r.store
            /\ ret' = Returned("set_state",
                          [key |-> key, value |-> value, before |-> store,
                           raised |-> r.raised, error |-> r.error, got |-> None,
                           log |-> Logged("set", key, value, r.raised)], FALSE)
    /\ UNCHANGED << now, loop_state >>

CallDeleteState ==
    /\ Len(Log) < MaxOps
    /\ \E key \in StoreKeys :
        /\ store' = delete_state(store, key)
        /\ ret' = Returned("delete_state",
                      [key |-> key, value |-> None, before |-> store,
                       raised |-> FALSE, error |-> "", got |-> None,
                       log |-> Logged("delete", key, None, FALSE)], FALSE)
    /\ UNCHANGED << now, loop_state >>

CallGetState ==
    /\ Len(Log) < MaxOps
    /\ \E key \in StoreKeys : \E default \in Defaults :
        /\ ret' = Returned("get_state",
                      [key |-> key, value |-> default, before |-> store,
                       raised |-> FALSE, error |-> "",
                       got |-> get_state_call(store, key, default),
                       log |-> Logged("get", key, default, FALSE)], FALSE)
    /\ UNCHANGED << store, now, loop_state >>

StoreNext == CallSetState \/ CallDeleteState \/ CallGetState

StoreSpec == StoreInit /\ [][StoreNext]_vars

\* what the calls of the log left under the key: the value of the last set
\* that returned, unless a delete came after it, and `missing` otherwise
RECURSIVE LastSet(_, _, _)
LastSet(log, key, missing) ==
    IF Len(log) = 0 THEN missing
    ELSE
    LET e == log[Len(log)]
        earlier == SubSeq(log, 1, Len(log) - 1)
    IN  IF e.key = key /\ e.op = "set" /\ ~e.raised THEN e.value
        ELSE IF e.key = key /\ e.op = "delete" THEN missing
        ELSE LastSet(earlier, key, missing)

\* the log before the call that has just returned
LogBefore == SubSeq(Log, 1, Len(Log) - 1)

C30_UnrepresentableIsRejected ==
    (/\ ret.op = "set_state"
     /\ ret.value.key \in StoreKeys
     /\ ret.value.value.py \notin JsonNative)
        => /\ ret.value.raised
           /\ StartsWith(ret.value.error, "Cannot serialize value")
           /\ store = ret.value.before

(***************************************************************************)
(* core/risk.py on its own: a percentage of a base amount turned into      *)
(* dollars and back.  Amounts are exact; the rounding of floats is left    *)
(* out, so equality here is the equality within tolerance of the text.     *)
(***************************************************************************)
MaxBase == 3

MaxPct == 100

RiskInit ==
    /\ store = EmptyStore
    /\ now = 0
    /\ today = 0
    /\ config = DefaultConfig
    /\ broker = Still
    /\ pc = "start"
    /\ attempt = 0
    /\ equity \in 0..MaxBase
    /\ day_start_equity = 0
    /\ init_ok = FALSE
    /\ init_error = ""
    /\ should_continue = TRUE
    /\ halt_reason = ""
    /\ enabled_bots = <<>>
    /\ bots_run = <<>>
    /\ errors = <<>>
    /\ exitbot_result = NoExitBotResult
    /\ result = NoResult
    /\ ret = NoReturn
    /\ runner = RunnerUp
    /\ calls = NoCalls
    /\ audit = NoAudit

\* pct_from_dollars(base, dollars_from_pct(base, pct)), base the equity
CallPctFromDollars ==
    /\ ret.op = ""
    /\ \E pct \in 0..MaxPct :
        LET dollars_x100 == dollars_from_pct_x100(equity, pct)
        IN  ret' = Returned("pct_from_dollars",
                       [base |-> equity, pct |-> pct, dollars_x100 |-> dollars_x100,
                        back |-> pct_from_dollars_x100(equity, dollars_x100)],
                       FALSE)
    /\ UNCHANGED << store, now, loop_state >>

RiskNext == CallPctFromDollars

RiskSpec == RiskInit /\ [][RiskNext]_vars

RoundTripped == ret.op = "pct_from_dollars"

\* C31: for pct in 0..100 and a base above zero the percentage of the
\* dollars of the percentage is the percentage; for a base of zero it is
\* zero whatever the percentage was; and zero percent of any base is zero
\* dollars.
C31_RoundTrip ==
    RoundTripped =>
        /\ ret.value.base > 0 => ret.value.back = ret.value.pct
        /\ ret.value.base = 0 => ret.value.back = 0
        /\ ret.value.pct = 0 => ret.value.dollars_x100 = 0

\* C31 as stated: the round trip returns pct for every base, zero included
C31_RoundTripFromZero ==
    RoundTripped => ret.value.back = ret.value.pct

\* two percent of a base of three, and back
C31_Witness ==
    /\ RoundTripped
    /\ ret.value.base = 3
    /\ ret.value.pct = 2
    /\ ret.value.dollars_x100 = 6
    /\ ret.value.back = 2

(***************************************************************************)
(* A process started with settings of its own on a new store, or on the    *)
(* store of an earlier process that tripped the Kill-Switch and stopped,   *)
(* while that halt stands.                                                 *)
(***************************************************************************)
\* the settings this process may be started with, and its brokerage
RestartScenarios ==
    { <<Off("exitbot_enabled"), Falling>>, <<DefaultConfig, Falling>> }

\* the stores it may find: a new one, or one with a halt that stands
RestartStores ==
    {EmptyStore}
        \cup {set_halt(EmptyStore, reason, MaxCooloff, 0) : reason \in HaltReasons}

RestartInit ==
    /\ store \in RestartStores
    /\ now = 0
    /\ today = 0
    /\ \E sn \in RestartScenarios : config = sn[1] /\ broker = sn[2]
    /\ pc = "start"
    /\ attempt = 0
    /\ equity = 0
    /\ day_start_equity = 0
    /\ init_ok = FALSE
    /\ init_error = ""
    /\ should_continue = TRUE
    /\ halt_reason = ""
    /\ enabled_bots = <<>>
    /\ bots_run = <<>>
    /\ errors = <<>>
    /\ exitbot_result = NoExitBotResult
    /\ result = NoResult
    /\ ret = NoReturn
    /\ runner = RunnerUp
    /\ calls = NoCalls
    /\ audit = NoAudit

RestartSpec == RestartInit /\ [][Next]_vars

\* C32: an iteration whose LoopResult says HALTED has executed no worker,
\* also when the Kill-Switch is switched off while a halt record stands.
C32_HaltedMeansNoWorker ==
    (pc = "done" /\ StatusIs("HALTED")) => ~WorkerExecuted

\* ExitBot.run has just returned to run_loop
ExitbotReturned == pc = "step3" /\ calls.exitbot = 1

\* C33: when ExitBot.run returns is_halted = true, the Halt Manager holds
\* an active halt as the call returns: is_halted() is true, on every path
\* of ExitBot.run.
C33_HaltReturnedIsHaltStored ==
    (ExitbotReturned /\ exitbot_result.is_halted) => is_halted(store, now)

\* the same on every path but the one on which bots.yaml failed to load
C33_HaltStoredUnlessConfigFailed ==
    (ExitbotReturned /\ exitbot_result.is_halted /\ config.bots_config_ok)
        => is_halted(store, now)

\* C34: after a trip the reason the Halt Manager holds is the halt_reason
\* the tripping ExitBot.run returned, with any suffix about a liquidation
\* that failed.
C34_StoredReasonIsReturnedReason ==
    (ExitbotReturned /\ calls.set_halt = 1) =>
        get_state(store, "halt.reason", "") = exitbot_result.halt_reason

\* Step 1 of this iteration has succeeded
Step1Done == init_ok /\ pc \in {"step2", "step3", "step4", "step5", "done"}

\* the loss threshold ExitBot.run computes from the baseline handed to it,
\* in hundredths
KillSwitchThreshold_x100 == dollars_from_pct_x100(day_start_equity, max_loss_pct)

\* C35: once Step 1 has succeeded the global key day_start_equity holds what
\* the key of today's date holds, which is the baseline handed to the
\* Kill-Switch, and the daily_risk the Allocator computes on that store is
\* the Kill-Switch's loss threshold.
C35_OneBaseline ==
    Step1Done =>
        /\ has_key(store, "day_start_equity")
        /\ has_key(store, "day_start_equity_" \o get_date_string(today))
        /\ store["day_start_equity"]
               = store["day_start_equity_" \o get_date_string(today)]
        /\ store["day_start_equity"] = day_start_equity
        /\ PortfolioBot_run(store, LoadedConfig(TRUE), equity).daily_risk * 100
               = KillSwitchThreshold_x100 * BudgetScale

\* an iteration that found today's baseline stored, with an equity below
\* it, and went on to allocate
C35_Witness ==
    /\ Step1Done
    /\ pc = "done"
    /\ calls.budgets_set
    /\ day_start_equity = 1000
    /\ equity = 990
    /\ audit.first_equity = 1000

\* the loss of the iteration has reached the limit
LossBreached ==
    (equity - day_start_equity) * 100 <= -(day_start_equity * max_loss_pct)

\* C36: ExitBot.run tries disabled, already halted, health, daily loss, in
\* that order, and the first that holds decides.  Disabled: it returns
\* should_continue = true with pnl = equity - day_start_equity and leaves
\* the store alone, with no set_halt and no liquidation, whether or not a
\* halt stands or the loss limit is reached.  Already halted: no new halt
\* and no liquidation, whatever the health and the loss.  Health not ok
\* together with the loss limit reached: the reason returned and the reason
\* stored are HEALTH_FAIL.
C36_FirstMatchWins ==
    [][ (ExitbotCall /\ config.bots_config_ok) =>
          LET health == get_snapshot(clear_if_expired(store, now), now)
          IN  /\ ~config.exitbot_enabled =>
                  /\ exitbot_result'.should_continue
                  /\ ~exitbot_result'.is_halted
                  /\ exitbot_result'.pnl = equity - day_start_equity
                  /\ store' = store
                  /\ calls'.set_halt = calls.set_halt
                  /\ calls'.flatten = calls.flatten
              /\ (config.exitbot_enabled /\ is_halted(store, now)) =>
                  /\ ~exitbot_result'.should_continue
                  /\ calls'.set_halt = calls.set_halt
                  /\ calls'.flatten = calls.flatten
                  /\ HaltKeysUnchanged
              /\ ( /\ config.exitbot_enabled
                   /\ ~is_halted(store, now)
                   /\ ~health.ok /\ config.api_failure_halt
                   /\ LossBreached /\ config.max_daily_loss_halt ) =>
                  /\ StartsWith(exitbot_result'.halt_reason, "HEALTH_FAIL: ")
                  /\ StartsWith(get_state(store', "halt.reason", ""),
                                "HEALTH_FAIL: ")
                  /\ calls'.set_halt = calls.set_halt + 1
      ]_vars

\* the Kill-Switch switched off, met with a standing halt and a loss past
\* the limit: it let the iteration go on
C36_Witness ==
    /\ ExitbotReturned
    /\ ~config.exitbot_enabled
    /\ get_state(store, "halt.active", FALSE)
    /\ is_halted(store, now)
    /\ day_start_equity = 1000
    /\ equity = 970
    /\ exitbot_result.should_continue
    /\ exitbot_result.pnl = -30
    /\ calls.set_halt = 0

\* stale data and a loss past the limit at once: the trip is a health trip
HealthAndLossAtOnce ==
    /\ ExitbotReturned
    /\ config.exitbot_enabled
    /\ day_start_equity = 1000
    /\ equity = 970
    /\ ~calls.halt_seen
    /\ ~calls.health_seen
    /\ StartsWith(exitbot_result.halt_reason, "HEALTH_FAIL: ")

(***************************************************************************)
(* Who writes the halt keys: one call of any operation of the Halt         *)
(* Manager, the Health Monitor, the Allocator or the Execution Service, at *)
(* any time, on a store that may hold a halt, budgets and health facts.    *)
(***************************************************************************)
\* the stores the call may find
FrameStores ==
    LET halts == {EmptyStore}
                   \cup { set_halt(EmptyStore, reason, c, 0) :
                            reason \in HaltReasons, c \in 1..MaxCooloff }
        funded == halts \cup {PortfolioBot_run(s, AllOn, 3000).store : s \in halts}
    IN  funded \cup {record_api_failure(s, 0) : s \in funded}

FrameInit ==
    /\ store \in FrameStores
    /\ now \in 0..MaxTime
    /\ today = 0
    /\ config = DefaultConfig
    /\ broker = Still
    /\ pc = "start"
    /\ attempt = 0
    /\ equity = 0
    /\ day_start_equity = 0
    /\ init_ok = FALSE
    /\ init_error = ""
    /\ should_continue = TRUE
    /\ halt_reason = ""
    /\ enabled_bots = <<>>
    /\ bots_run = <<>>
    /\ errors = <<>>
    /\ exitbot_result = NoExitBotResult
    /\ result = NoResult
    /\ ret = NoReturn
    /\ runner = RunnerUp
    /\ calls = NoCalls
    /\ audit = NoAudit

\* no call has been made yet
FrameReady == ret.op = ""

\* one call of PortfolioBot.run, under one of two bots.yaml
FrameAllocate ==
    /\ \E c \in {AllOn, LoadedConfig(TRUE)} : \E e \in AllocEquities :
        LET r == PortfolioBot_run(store, c, e)
        IN  /\ store' = r.store
            /\ ret' = Returned("PortfolioBot.run", r.budgets_set, FALSE)
    /\ UNCHANGED << now, loop_state >>

\* one call of ExecutionService.run on the workers of AllOn
FrameExecute ==
    /\ \E outcomes \in [1..2 -> {"ok", "raise"}] :
        LET r == execution_run(store, now, <<"opt_core", "crypto_core">>, outcomes)
        IN  /\ store' = r.store
            /\ ret' = Returned("ExecutionService.run", Len(r.bots_run), FALSE)
    /\ UNCHANGED << now, loop_state >>

\* one call, of any operation
FrameNext ==
    \/ FrameReady /\ CallSetHalt
    \/ FrameReady /\ CallClearHalt
    \/ FrameReady /\ CallClearIfExpired
    \/ FrameReady /\ CallIsHalted
    \/ FrameReady /\ CallGetStatus
    \/ FrameReady /\ CallRecordApiFailure
    \/ FrameReady /\ CallRecordPriceTick
    \/ FrameReady /\ CallGetSnapshot
    \/ FrameReady /\ FrameAllocate
    \/ FrameReady /\ FrameExecute

FrameSpec == FrameInit /\ [][FrameNext]_vars

\* the status of a Halt Manager that holds nothing
NoHaltStatus ==
    [active |-> FALSE, reason |-> "", halted_at |-> "None", expires_at |-> "None"]

\* C37: the four halt keys change only in set_halt, in clear_halt, and in an
\* is_halted() or clear_if_expired() that meets a halt past its expiry;
\* get_status() leaves the whole store as it is; after clear_halt() none of
\* the four keys is left and get_status() returns (false, "", none, none);
\* the Health Monitor, the Allocator and the Execution Service leave the
\* four keys as they are.
C37_HaltKeysFrame ==
    [][ /\ ~HaltKeysUnchanged =>
              \/ ret'.op \in {"set_halt", "clear_halt"}
              \/ /\ ret'.op \in {"is_halted", "clear_if_expired"}
                 /\ PastExpiry(store, now)
        /\ ret'.op = "get_status" => store' = store
        /\ ret'.op = "clear_halt" =>
              /\ NoHaltKeys(store')
              /\ get_status(store') = NoHaltStatus
              /\ KeysOutsideUnchanged(HaltKeys)
        /\ ret'.op \in {"record_api_failure", "record_price_tick", "get_snapshot",
                        "PortfolioBot.run", "ExecutionService.run"} =>
              HaltKeysUnchanged
      ]_vars

\* the Allocator has set budgets on a store whose halt still stands
C37_Witness ==
    /\ ret.op = "PortfolioBot.run"
    /\ ret.value
    /\ get_state(store, "halt.active", FALSE)
    /\ has_key(store, "halt.expires_at")
    /\ has_key(store, "budgets.mom_AAPL.max_daily_loss")
    /\ has_key(store, "health.api_failure_count")

\* the persisted max_daily_loss of the workers named, one after another
LossesOf(s, ids) ==
    [i \in 1..Len(ids) |->
        get_state(s, "budgets." \o ids[i] \o ".max_daily_loss", 0)]

\* C38: after a run that set budgets, the persisted max_daily_loss of the
\* workers in the returned enabled list add up to no more than the
\* daily_risk returned.  It is stated for the bucket and guardrail
\* percentages the code takes when bots.yaml names none.
C38_EnabledSumWithinDailyRisk ==
    (/\ Allocated
     /\ ret.value.config.buckets = buckets
     /\ ret.value.config.guardrails = guardrails)
        => SumSeq(LossesOf(store, ret.value.enabled_bots)) <= ret.value.daily_risk

(***************************************************************************)
(* One call of run_loop, followed to its return.  The process is any of    *)
(* Scenarios and the store is new, or holds today's baseline, or holds a   *)
(* halt that stands.  run_loop is sequential code whose waits are bounded  *)
(* (the sleeps of the retries, the 30s time-out of a request), so a step   *)
(* that can be taken is taken.                                             *)
(***************************************************************************)
LiveStores == RestartStores \cup {StoreWithBaseline(0, 1000)}

LiveInit ==
    /\ store \in LiveStores
    /\ now = 0
    /\ today = 0
    /\ \E sn \in Scenarios : config = sn[1] /\ broker = sn[2]
    /\ pc = "start"
    /\ attempt = 0
    /\ equity = 0
    /\ day_start_equity = 0
    /\ init_ok = FALSE
    /\ init_error = ""
    /\ should_continue = TRUE
    /\ halt_reason = ""
    /\ enabled_bots = <<>>
    /\ bots_run = <<>>
    /\ errors = <<>>
    /\ exitbot_result = NoExitBotResult
    /\ result = NoResult
    /\ ret = NoReturn
    /\ runner = RunnerUp
    /\ calls = NoCalls
    /\ audit = NoAudit

\* the steps of run_loop once it has been entered
RunLoopStep ==
    \/ StepInitialize
    \/ AccountFetch
    \/ StepExitbot
    \/ StepPortfoliobot
    \/ StepExecution
    \/ StepFinalize

LiveNext == Tick \/ LoopStart \/ RunLoopStep

\* run_loop has been entered and has not returned
InRunLoop == pc \notin {"start", "done"}

\* the labels run_loop goes through after its entry
Labels == {"step1", "fetch", "step2", "step3", "step4", "step5", "done"}

\* The thread inside run_loop moves on, to another label or to the next
\* attempt of the fetch.  Every step of RunLoopStep is such a move, and a
\* step of LiveNext that is such a move from inside run_loop is a step of
\* RunLoopStep; each label inside run_loop has a step that can be taken,
\* its guards being the label and the caps of the failure counter, which
\* one call started from LiveStores does not reach.
Advance ==
    /\ InRunLoop
    /\ \E p \in Labels, a \in 0..max_retries :
        /\ pc' = p
        /\ attempt' = a
        /\ << p, a >> # << pc, attempt >>

LiveSpec == LiveInit /\ [][LiveNext]_vars /\ WF_<< pc, attempt >>(Advance)

Signal ==
    /\ pc # "stopped"
    /\ runner.running
    /\ runner' = signal_handler(runner, pc)
    /\ UNCHANGED << store, now, today, config, broker, ret, pc, attempt, locals,
                    result, calls, audit >>

\* main: the loop is left, the store is closed, the runner has stopped
RunnerStop ==
    /\ pc = "start"
    /\ ~while_running(runner)
    /\ pc' = "stopped"
    /\ runner' = close_state_store(runner)
    /\ UNCHANGED << store, now, today, config, broker, ret, attempt, locals,
                    result, calls, audit >>

ShutdownNext == Next \/ Signal \/ RunnerStop

\* The main thread is not held for ever: run_loop moves on, the sleep ends,
\* and the instructions after the loop are executed.
ShutdownSpec ==
    /\ RestartInit
    /\ [][ShutdownNext]_vars
    /\ WF_<< pc, attempt >>(Advance)
    /\ WF_vars(RunnerSleep)
    /\ WF_vars(RunnerStop)

\* shutdown has been requested while an iteration was in flight
ShutdownInFlight ==
    /\ ~runner.running
    /\ runner.signal_at \in Labels \ {"done"}

\* C40: when shutdown is requested while an iteration is in flight, the
\* iteration is not cut short (the runner does not stop and the store stays
\* open until run_loop has returned) and it does return; no iteration is
\* started once shutdown is requested; and the runner then closes the state
\* store and stops, for good.
C40_ShutdownAfterIteration ==
    /\ [][(ShutdownInFlight /\ InRunLoop) =>
              (pc' # "stopped" /\ runner'.store_open)]_vars
    /\ [][~runner.running => ~(pc = "start" /\ pc' = "step1")]_vars
    /\ [][pc = "stopped" => UNCHANGED vars]_vars
    /\ ((ShutdownInFlight /\ InRunLoop) ~> (pc = "done"))
    /\ (ShutdownInFlight ~> (pc = "stopped" /\ ~runner.store_open))

\* the runner has stopped after a signal that met run_loop at its Step 3
C40_Witness ==
    /\ pc = "stopped"
    /\ ~runner.store_open
    /\ runner.signal_at = "step3"

====
